---- MODULE Spec2Model ----
(***************************************************************************)
(* State-machine model of the AgentAuth MCP gateway:                       *)
(*   - AuthRefreshTransportWrapper (one-time payment header slot),         *)
(*   - PaymentHandler.processPaymentAuthorization / processPaymentRequired,*)
(*   - mcpProxy (message handlers and close propagation),                  *)
(*   - connectToRemoteServer (transport strategy and fallback).            *)
(* Each component has its own specification over the shared variables.     *)
(***************************************************************************)
EXTENDS Integers, Sequences, FiniteSets, TLC

VARIABLES
  \* ---- AuthRefreshTransportWrapper -------------------------------------
  pendingPaymentHeaders, \* the slot: "none" or a staged header set
  sendQueue,             \* messages accepted by send(), POST not yet issued
  fetchLog,              \* POST requests handed to originalFetch, in order
  inflight,              \* POSTs dispatched and not yet resolved
  wrapHist,              \* history of stagings and POSTs, in order
  \* ---- WalletService and the chain it talks to ------------------------
  walletChain,           \* currentChainId (0 = not configured)
  chainUsdc,             \* USDC balance of the wallet, atomic units
  chainEth,              \* ETH balance of the wallet, gas units
  chainGas,              \* cost the node estimates for a transaction
  \* ---- PaymentHandler.processPaymentAuthorization (direct call) --------
  auth,                  \* the call in progress
  \* ---- mcpProxy close propagation ---------------------------------------
  transportToClientClosed,
  transportToServerClosed,
  closeCalls,            \* close() calls made by the proxy, per transport
  closeEvents,           \* close events delivered so far, in order
  \* ---- connectToRemoteServer -------------------------------------------
  conn,                  \* the call in progress
  \* ---- mcpProxy message handlers --------------------------------------
  hasWallet,             \* walletService was supplied
  remoteWrapped,         \* transportToServer has setPaymentHeadersForNextRequest
  lastRequest,           \* index of the last local message with a method
  localIn,               \* messages received from the local side
  remoteIn,              \* messages received from the remote side
  localH,                \* handler invocations for localIn
  remoteH,               \* handler invocations for remoteIn
  toRemote,              \* transportToServer.send calls, in order
  toLocal,               \* transportToClient.send calls, in order
  signLog,               \* walletService.signTransaction calls, in order
  \* ---- a function of the gateway applied to one input ------------------
  call,                  \* [fn, arg, out]; out is set once it has returned
  \* ---- the process the wrapper lives in --------------------------------
  globalFetch            \* what globalThis.fetch is: "interceptFetch" or "originalFetch"

wrapVars  == <<pendingPaymentHeaders, sendQueue, fetchLog, inflight, wrapHist>>
chainVars == <<walletChain, chainUsdc, chainEth, chainGas>>
closeVars == <<transportToClientClosed, transportToServerClosed, closeCalls, closeEvents>>
proxyVars == <<hasWallet, remoteWrapped, lastRequest, localIn, remoteIn, localH, remoteH, toRemote, toLocal>>
vars == <<wrapVars, chainVars, auth, closeVars, conn, proxyVars, signLog, call, globalFetch>>

(***************************************************************************)
(* Bounds                                                                  *)
(***************************************************************************)
MaxStage == 2    \* stagings of payment headers in the wrapper specification
MaxSends == 2    \* fetch requests (message POSTs and GETs) in the wrapper specification
MaxCloseEvents == 4  \* close events delivered to the proxy
MaxDepth == 4    \* nested connectToRemoteServer calls explored
MaxMsgs == 2     \* messages received by the proxy, both sides together
MaxWalletCalls == 3
MaxRegistrations == 3
MaxRepairs == 2  \* successive applications of fixTruncatedTransactionData

(***************************************************************************)
(* Program constants                                                       *)
(***************************************************************************)
VERSION == "0.1.0"
REASON_TRANSPORT_FALLBACK == "falling-back-to-alternate-transport"
BaseMainnet == 8453
BaseSepolia == 84532
SelectorAndRecipientLen == 74   \* "0x" + 8 selector + 64 recipient chars
FullTransferLen == 138          \* plus 64 amount chars
fallbackGasCost == 5            \* '0.00005' ETH, in units of 0.00001 ETH
PaymentErrorCode == 0 - 32001

None == "none"

(***************************************************************************)
(* Transaction templates.  A template's data string is described by:       *)
(*   sel   - it starts with the ERC-20 transfer selector 0xa9059cbb        *)
(*   len   - its length in characters                                      *)
(*   amt   - the number its amount digits (after character 74) encode      *)
(*   hexOk - it matches /^0x[0-9a-fA-F]*$/                                 *)
(* "to": "usdc" is the Base USDC contract, "addr" another valid address,   *)
(* "bad" is not an address.                                                *)
(***************************************************************************)
Tpl(to, sel, len, amt, hexOk, valueOk, chainId, gasLimit) ==
  [to |-> to, sel |-> sel, len |-> len, amt |-> amt, hexOk |-> hexOk,
   valueOk |-> valueOk, chainId |-> chainId, gasLimit |-> gasLimit, isNull |-> FALSE,
   x402Requirement |-> FALSE]

NullTpl == [Tpl("bad", FALSE, 0, 0, FALSE, FALSE, 0, FALSE) EXCEPT !.isNull = TRUE]

TplGood(a)   == Tpl("usdc", TRUE, FullTransferLen, a, TRUE, TRUE, BaseMainnet, TRUE)
TplTrunc(a)  == Tpl("usdc", TRUE, 100, a, TRUE, TRUE, BaseMainnet, TRUE)
TplShort     == Tpl("usdc", TRUE, 10, 0, TRUE, TRUE, BaseMainnet, TRUE)
TplSepolia   == Tpl("usdc", TRUE, FullTransferLen, 1, TRUE, TRUE, BaseSepolia, TRUE)
TplNoSel     == Tpl("addr", FALSE, 10, 0, TRUE, TRUE, BaseMainnet, TRUE)
\* a call of another function of another contract, as long as a transfer,
\* whose last 64 digits read as a
TplOther(a)  == Tpl("addr", FALSE, FullTransferLen, a, TRUE, TRUE, BaseMainnet, TRUE)
TplBadTo     == Tpl("bad", TRUE, FullTransferLen, 1, TRUE, TRUE, BaseMainnet, TRUE)
\* the template X402Protocol builds for a requirement: a transfer on the
\* asset contract of the network, carrying the requirement
TplX402(a, chainId) ==
  [Tpl(IF chainId = BaseMainnet THEN "usdc" ELSE "addr", TRUE, FullTransferLen, a,
       TRUE, TRUE, chainId, TRUE) EXCEPT !.x402Requirement = TRUE]

\* AgentPayV002Protocol.fixTruncatedTransactionData: the amount digits of a
\* truncated transfer are padded with leading zeros to 64 characters, which
\* leaves the number they encode as it was
fixTruncatedTransactionData_PadByFixed(template) ==
  IF template.len = 0 THEN template
  ELSE IF template.sel
          /\ template.len >= SelectorAndRecipientLen
          /\ template.len < FullTransferLen
       THEN [template EXCEPT !.len = @ + 32]
       ELSE template

fixTruncatedTransactionData(template) ==
  IF template.len = 0 THEN template
  ELSE IF template.sel
          /\ template.len >= SelectorAndRecipientLen
          /\ template.len < FullTransferLen
       THEN [template EXCEPT !.len = FullTransferLen]
       ELSE template

\* X402Protocol.fixTruncatedTransactionData: returns the template as it is
X402FixTruncatedTransactionData(template) == template

\* fixTruncatedTransactionData of the descriptor registered under a name
ProtocolFixTruncatedTransactionData(protocolName, template) ==
  IF protocolName = "x402" THEN X402FixTruncatedTransactionData(template)
  ELSE fixTruncatedTransactionData(template)

\* AgentPayV002Protocol.validateTransactionTemplate: the list of errors, in
\* the order they are pushed
validateTransactionTemplate(template) ==
  (IF template.to = "bad" THEN <<"Invalid recipient address">> ELSE <<>>)
  \o (IF template.len = 0 \/ ~template.hexOk THEN <<"Invalid transaction data">> ELSE <<>>)
  \o (IF template.len # 0 /\ template.to = "usdc" /\ template.len # FullTransferLen
      THEN <<"USDC transfer data has incorrect length">> ELSE <<>>)
  \o (IF template.len # 0 /\ template.to = "usdc"
         /\ ~(template.sel /\ template.hexOk /\ template.len = FullTransferLen)
      THEN <<"USDC transfer data is corrupted and cannot be parsed">> ELSE <<>>)
  \o (IF ~template.valueOk THEN <<"Invalid transaction value">> ELSE <<>>)
  \o (IF template.chainId = 0 THEN <<"Invalid chain ID">> ELSE <<>>)
  \o (IF ~template.gasLimit THEN <<"Missing gas limit">> ELSE <<>>)
  \o (IF template.chainId # BaseMainnet THEN <<"Unexpected chain ID">> ELSE <<>>)

\* ethers.formatUnits(a, 6): the decimal text of a atomic units, as its
\* whole part and its six fraction digits
formatUnits_WrongDecimals(a) == [whole |-> a \div 1000, frac |-> a % 1000]

formatUnits(a) == [whole |-> a \div 1000000, frac |-> a % 1000000]

\* parseFloat of such a text: a number, counted in millionths
parseFloat(text) == text.whole * 1000000 + text.frac

\* PaymentHandler.extractAmountFromTransaction (0 when the data is not a
\* transfer or its last 64 characters are not hex digits)
extractAmountFromTransaction_Unrecognised(transaction) == 0

extractAmountFromTransaction_AnySelector(transaction) ==
  IF transaction.len >= FullTransferLen /\ transaction.hexOk
  THEN parseFloat(formatUnits(transaction.amt))
  ELSE 0

extractAmountFromTransaction(transaction) ==
  IF transaction.len # 0 /\ transaction.sel
  THEN IF transaction.len >= FullTransferLen /\ transaction.hexOk
       THEN parseFloat(formatUnits(transaction.amt))
       ELSE 0
  ELSE 0

(***************************************************************************)
(* AuthRefreshTransportWrapper                                             *)
(***************************************************************************)
HeaderSets == {"h1", "h2"}
FetchOutcomes == {"ok", "network-error"}

StageCount == Cardinality({i \in 1..Len(wrapHist) : wrapHist[i].ev = "stage"})
PostCount  == Cardinality({i \in 1..Len(wrapHist) : wrapHist[i].ev = "post"})

\* The replacement of globalThis.fetch installed by interceptFetch: the
\* payment headers attached to this request and the slot left behind.
InterceptFetch_NoClear(method, pending) ==
  IF method = "POST"
  THEN [identity |-> TRUE, pay |-> pending, slot |-> pending]
  ELSE [identity |-> FALSE, pay |-> None, slot |-> pending]

InterceptFetch(method, pending) ==
  IF method = "POST"
  THEN [identity |-> TRUE,
        pay |-> pending,
        slot |-> IF pending # None THEN None ELSE pending]
  ELSE [identity |-> FALSE, pay |-> None, slot |-> pending]

\* a call of globalThis.fetch: the replacement while it is installed,
\* afterwards the function the constructor saved
GlobalFetch(method, pending) ==
  IF globalFetch = "interceptFetch" THEN InterceptFetch(method, pending)
  ELSE [identity |-> FALSE, pay |-> None, slot |-> pending]

\* setPaymentHeadersForNextRequest(headers)
StageOp_KeepEarlier(headers) ==
  /\ pendingPaymentHeaders' = IF pendingPaymentHeaders # None
                              THEN pendingPaymentHeaders ELSE headers
  /\ wrapHist' = Append(wrapHist, [ev |-> "stage", h |-> headers, slotAtDispatch |-> None])

StageOp(headers) ==
  /\ pendingPaymentHeaders' = headers
  /\ wrapHist' = Append(wrapHist, [ev |-> "stage", h |-> headers, slotAtDispatch |-> None])

setPaymentHeadersForNextRequest ==
  /\ StageCount < MaxStage
  /\ \E headers \in HeaderSets : StageOp(headers)
  /\ UNCHANGED <<sendQueue, fetchLog, inflight>>
  /\ UNCHANGED <<chainVars, auth, closeVars, conn, proxyVars, signLog>>
  /\ UNCHANGED call
  /\ UNCHANGED globalFetch

\* send(message): delegates to the wrapped transport, which will POST it
WrapSend ==
  /\ Len(sendQueue) + Len(fetchLog) < MaxSends
  /\ sendQueue' = Append(sendQueue, Len(sendQueue) + PostCount + 1)
  /\ UNCHANGED <<pendingPaymentHeaders, fetchLog, inflight, wrapHist>>
  /\ UNCHANGED <<chainVars, auth, closeVars, conn, proxyVars, signLog>>
  /\ UNCHANGED call
  /\ UNCHANGED globalFetch

\* The wrapped transport issues the POST of its oldest accepted message
\* through globalThis.fetch; originalFetch is called before the handler
\* function returns.
TransportPost ==
  /\ Len(sendQueue) > 0
  /\ LET r == GlobalFetch("POST", pendingPaymentHeaders) IN
       /\ pendingPaymentHeaders' = r.slot
       /\ fetchLog' = Append(fetchLog, [method |-> "POST", msg |-> Head(sendQueue),
                                        by |-> "transport",
                                        identity |-> r.identity, pay |-> r.pay,
                                        outcome |-> "pending"])
       /\ wrapHist' = Append(wrapHist, [ev |-> "post", h |-> r.pay, slotAtDispatch |-> r.slot])
       /\ inflight' = inflight \cup {Len(fetchLog) + 1}
  /\ sendQueue' = Tail(sendQueue)
  /\ UNCHANGED <<chainVars, auth, closeVars, conn, proxyVars, signLog>>
  /\ UNCHANGED call
  /\ UNCHANGED globalFetch

\* A non-POST request (the GET of an event stream) goes to originalFetch
\* untouched.
TransportGet ==
  /\ Len(sendQueue) + Len(fetchLog) < MaxSends
  /\ LET r == GlobalFetch("GET", pendingPaymentHeaders) IN
       /\ pendingPaymentHeaders' = r.slot
       /\ fetchLog' = Append(fetchLog, [method |-> "GET", msg |-> 0,
                                        by |-> "transport",
                                        identity |-> r.identity, pay |-> r.pay,
                                        outcome |-> "pending"])
       /\ inflight' = inflight \cup {Len(fetchLog) + 1}
  /\ UNCHANGED <<sendQueue, wrapHist>>
  /\ UNCHANGED <<chainVars, auth, closeVars, conn, proxyVars, signLog>>
  /\ UNCHANGED call
  /\ UNCHANGED globalFetch

\* originalFetch settles: a response, an HTTP error status, or a rejection
FetchResolve ==
  /\ \E i \in inflight, o \in FetchOutcomes :
       /\ fetchLog' = [fetchLog EXCEPT ![i].outcome = o]
       /\ inflight' = inflight \ {i}
  /\ UNCHANGED <<pendingPaymentHeaders, sendQueue, wrapHist>>
  /\ UNCHANGED <<chainVars, auth, closeVars, conn, proxyVars, signLog>>
  /\ UNCHANGED call
  /\ UNCHANGED globalFetch

\* Code of the same process that is not the wrapped transport calls
\* globalThis.fetch(url, {method: 'POST'})
OtherPost ==
  /\ Len(sendQueue) + Len(fetchLog) < MaxSends
  /\ LET r == GlobalFetch("POST", pendingPaymentHeaders) IN
       /\ pendingPaymentHeaders' = r.slot
       /\ fetchLog' = Append(fetchLog, [method |-> "POST", msg |-> 0,
                                        by |-> "other",
                                        identity |-> r.identity, pay |-> r.pay,
                                        outcome |-> "pending"])
       /\ inflight' = inflight \cup {Len(fetchLog) + 1}
  /\ UNCHANGED <<sendQueue, wrapHist, globalFetch>>
  /\ UNCHANGED <<chainVars, auth, closeVars, conn, proxyVars, signLog, call>>

\* close(): globalThis.fetch is set back to originalFetch and the wrapped
\* transport is closed, which aborts its requests in flight
WrapClose ==
  /\ globalFetch' = "originalFetch"
  /\ fetchLog' = [i \in 1..Len(fetchLog) |->
                    IF i \in inflight /\ fetchLog[i].by = "transport"
                    THEN [fetchLog[i] EXCEPT !.outcome = "aborted"]
                    ELSE fetchLog[i]]
  /\ inflight' = {i \in inflight : fetchLog[i].by # "transport"}
  /\ UNCHANGED <<pendingPaymentHeaders, sendQueue, wrapHist>>
  /\ UNCHANGED <<chainVars, auth, closeVars, conn, proxyVars, signLog, call>>

WrapInit ==
  /\ pendingPaymentHeaders = None
  /\ sendQueue = <<>>
  /\ fetchLog = <<>>
  /\ inflight = {}
  /\ wrapHist = <<>>


(***************************************************************************)
(* JSON-RPC messages.  A request has a method; a response has none.        *)
(*   approved : the value of params.arguments.aa_payment_approved          *)
(*   tx       : params.arguments.aa_payment_transaction                    *)
(*   body     : what a response carries (see detectProtocol)               *)
(***************************************************************************)
ApprovalTrue == {"true", "'true'"}                 \* true and the string "true"
ApprovalVals == {"absent", "false", "'false'", "'yes'"} \cup ApprovalTrue
Truthy(v) == v \notin {"absent", "false"}           \* JavaScript truthiness

TxAbsent     == [kind |-> "absent", tpl |-> NullTpl]
TxObject(t)  == [kind |-> "object", tpl |-> t]
TxText(t)    == [kind |-> "text", tpl |-> t]       \* JSON.stringify(t)
TxBadText    == [kind |-> "badtext", tpl |-> NullTpl]  \* text JSON.parse rejects
\* the values of aa_payment_transaction that JavaScript takes as false:
\* no member, null, the empty string
TxFalsyKinds == {"absent", "null", "empty-text"}

Body(where, x402Version, accepts, error, code, content, chainId, amount) ==
  [where |-> where, x402Version |-> x402Version, accepts |-> accepts, error |-> error,
   code |-> code, content |-> content, chainId |-> chainId, amount |-> amount]

\* a message with neither error nor result carries no response data
NoBody == Body("none", 0, "none", None, 0, "none", 0, 0)

Req(id, method, hasParams, clientName, hasArgs, approved, tx) ==
  [id |-> id, method |-> method, hasParams |-> hasParams, clientName |-> clientName,
   hasArgs |-> hasArgs, approved |-> approved, tx |-> tx, body |-> NoBody]

Resp(id, body) ==
  [id |-> id, method |-> None, hasParams |-> FALSE, clientName |-> None,
   hasArgs |-> FALSE, approved |-> "absent", tx |-> TxAbsent, body |-> body]

ToolCall(id, approved, tx) == Req(id, "tools/call", TRUE, None, TRUE, approved, tx)

\* PaymentHandler.hasPaymentAuthorization
hasPaymentAuthorization_Truthy(message) ==
  /\ message.hasParams
  /\ message.hasArgs
  /\ Truthy(message.approved)
  /\ message.tx.kind \notin TxFalsyKinds

hasPaymentAuthorization(message) ==
  /\ message.hasParams
  /\ message.hasArgs
  /\ message.approved \in ApprovalTrue
  /\ message.tx.kind \notin TxFalsyKinds

(***************************************************************************)
(* PaymentHandler.processPaymentAuthorization, one step per awaited call.  *)
(* A call is a record; AuthNext gives its possible next steps together     *)
(* with the wallet's chain afterwards and whether signTransaction was      *)
(* invoked by the step.                                                    *)
(***************************************************************************)
NoResult == [kind |-> "none", text |-> None, headers |-> None, names |-> {},
             quantities |-> {}, joined |-> <<>>]

AuthCall(message) ==
  [pc |-> "start", msg |-> message, transaction |-> NullTpl,
   requiredAmount |-> 0, availableUsdc |-> 0, availableEth |-> 0, gasCost |-> 0,
   note |-> None, log |-> <<>>, result |-> NoResult]

AuthIdle == [AuthCall(Resp(0, NoBody)) EXCEPT !.pc = "idle"]

AuthError(a, text, ev) ==
  [a EXCEPT !.pc = "done", !.log = Append(@, ev),
            !.result = [kind |-> "error", text |-> text, headers |-> None, names |-> {},
                        quantities |-> {}, joined |-> <<>>]]

\* the descriptor processPaymentAuthorization works with, whatever the
\* template and the other arguments of the request
AuthProtocolName(message) == "agentpay-v002"

\* the names of the headers createAuthorizationHeaders of a descriptor gives
AuthorizationHeaderNames(protocolName) ==
  IF protocolName = "x402" THEN {"X-PAYMENT"}
  ELSE {"x-agentpay-authorization", "x-agentpay-from"}

\* AgentPayV002Protocol.createAuthorizationHeaders: the header set made of
\* the signed transaction and the sender
createAuthorizationHeaders(transaction) ==
  IF transaction.amt = 1 THEN "h1" ELSE "h2"

\* the argument check of processPaymentAuthorization
AuthArgsMissing(message) ==
  ~message.hasArgs \/ ~Truthy(message.approved) \/ message.tx.kind \in TxFalsyKinds

\* up to the first await: argument checks, parse, repair, validation
AuthStart_SkipValidation(a) ==
  IF ~a.msg.hasParams THEN AuthError(a, "No parameters in message", "no-params")
  ELSE IF AuthArgsMissing(a.msg)
       THEN AuthError(a, "Missing payment authorization parameters", "args-missing")
  ELSE IF a.msg.tx.kind = "badtext"
       THEN AuthError(a, "Invalid transaction format: unable to parse JSON", "parse-fail")
  ELSE [a EXCEPT !.pc = "await-balances",
                 !.transaction = fixTruncatedTransactionData(a.msg.tx.tpl),
                 !.log = Append(@, "validate-skipped")]

AuthStart(a) ==
  IF ~a.msg.hasParams THEN AuthError(a, "No parameters in message", "no-params")
  ELSE IF AuthArgsMissing(a.msg)
       THEN AuthError(a, "Missing payment authorization parameters", "args-missing")
  ELSE IF a.msg.tx.kind = "badtext"
       THEN AuthError(a, "Invalid transaction format: unable to parse JSON", "parse-fail")
  ELSE LET fixedTransaction == fixTruncatedTransactionData(a.msg.tx.tpl) IN
       IF fixedTransaction.isNull
       THEN AuthError(a, "Cannot read properties of null", "threw")
       ELSE LET validation == validateTransactionTemplate(fixedTransaction) IN
       \* `Invalid transaction: ${validation.errors.join(', ')}`
       IF validation # <<>>
       THEN [AuthError(a, "Invalid transaction: ", "validate-fail")
               EXCEPT !.result.joined = validation]
       ELSE [a EXCEPT !.pc = "await-balances",
                      !.transaction = fixedTransaction,
                      !.log = Append(@, "validate-ok")]

\* the quantities the error text of the asset check spells out:
\* `Insufficient USDC balance. Required: ${requiredAmount}, Available: ${availableUsdc}`
InsufficientUsdcQuantities(requiredAmount, availableUsdc) ==
  {<<"Required", requiredAmount>>, <<"Available", availableUsdc>>}

\* getWalletBalances settled; on success the asset check and the
\* synchronous start of estimateTransactionGas
AuthBalances(a, w, usdc, eth) ==
  IF w = 0
  THEN { [a |-> AuthError(a, "Failed to get wallet balances: Chain not configured",
                          "not-configured"),
          w |-> w, sign |-> FALSE] }
  ELSE
  { [a |-> AuthError(a, "Failed to get wallet balances", "balances-fail"), w |-> w, sign |-> FALSE] }
  \cup
  (LET required == extractAmountFromTransaction(a.transaction)
            b == [a EXCEPT !.requiredAmount = required,
                           !.availableUsdc = usdc, !.availableEth = eth] IN
        IF usdc < required
        THEN { [a |-> [AuthError(b, "Insufficient USDC balance", "asset-fail")
                         EXCEPT !.result.quantities = InsufficientUsdcQuantities(required, usdc)],
                w |-> w, sign |-> FALSE] }
        ELSE { [a |-> [b EXCEPT !.pc = "await-estimate", !.log = Append(@, "asset-ok")],
                w |-> IF a.transaction.chainId # 0 /\ w # a.transaction.chainId
                      THEN a.transaction.chainId ELSE w,
                sign |-> FALSE] })

\* estimateTxCost settled (a failure falls back to fallbackGasCost), then
\* the gas check and the first call of signPaymentTransaction
GasSufficient_NonStrict(availableEth, cost) == availableEth >= cost

GasSufficient(availableEth, cost) == availableEth > cost

\* estimateTransactionGas settled, by estimateTxCost (no errorMessage) or by
\* its catch (fallbackGasCost and an errorMessage), and the gas check
AuthEstimate(a, w, gas) ==
  { IF GasSufficient(a.availableEth, g.cost)
    THEN [a |-> [a EXCEPT !.pc = "await-nonce", !.gasCost = g.cost, !.note = g.note,
                          !.log = Append(@, "gas-ok")],
          w |-> w, sign |-> FALSE]
    ELSE [a |-> AuthError([a EXCEPT !.gasCost = g.cost, !.note = g.note],
                          "Insufficient ETH for gas", "gas-fail"),
          w |-> w, sign |-> FALSE]
    : g \in { [cost |-> gas, note |-> None],
              [cost |-> fallbackGasCost, note |-> "Gas estimation failed: "] } }

\* AgentPayV002Protocol.signPaymentTransaction: getTransactionCount,
\* getGasPrice, then walletService.signTransaction
AuthNonce(a, w) ==
  { [a |-> AuthError(a, "Failed to get transaction count", "nonce-fail"), w |-> w, sign |-> FALSE],
    [a |-> [a EXCEPT !.pc = "await-gasprice"], w |-> w, sign |-> FALSE] }

AuthGasPrice(a, w) ==
  { [a |-> AuthError(a, "Failed to get gas price", "gasprice-fail"), w |-> w, sign |-> FALSE],
    [a |-> [a EXCEPT !.pc = "await-sign", !.log = Append(@, "sign")], w |-> w, sign |-> TRUE] }

AuthSign(a, w) ==
  { [a |-> AuthError(a, "Failed to sign transaction", "sign-fail"), w |-> w, sign |-> FALSE],
    [a |-> [a EXCEPT !.pc = "done", !.log = Append(@, "headers"),
                     !.result = [kind |-> "headers", text |-> None,
                                 headers |-> createAuthorizationHeaders(a.transaction),
                                 names |-> AuthorizationHeaderNames(AuthProtocolName(a.msg)),
                                 quantities |-> {}, joined |-> <<>>]],
     w |-> w, sign |-> FALSE] }

AuthNext(a, w, usdc, eth, gas) ==
  CASE a.pc = "start"          -> { [a |-> AuthStart(a), w |-> w, sign |-> FALSE] }
    [] a.pc = "await-balances" -> AuthBalances(a, w, usdc, eth)
    [] a.pc = "await-estimate" -> AuthEstimate(a, w, gas)
    [] a.pc = "await-nonce"    -> AuthNonce(a, w)
    [] a.pc = "await-gasprice" -> AuthGasPrice(a, w)
    [] a.pc = "await-sign"     -> AuthSign(a, w)
    [] OTHER                   -> {}


(***************************************************************************)
(* mcpProxy: close propagation                                             *)
(***************************************************************************)
Sides == {"local", "remote"}
Opposite(side) == IF side = "local" THEN "remote" ELSE "local"

\* transportToClient.onclose
OnCloseLocal ==
  /\ Len(closeEvents) < MaxCloseEvents
  /\ closeEvents' = Append(closeEvents, "local")
  /\ IF transportToServerClosed
     THEN UNCHANGED <<transportToClientClosed, closeCalls>>
     ELSE /\ transportToClientClosed' = TRUE
          /\ closeCalls' = Append(closeCalls, [on |-> "remote", outcome |-> "pending"])
  /\ UNCHANGED transportToServerClosed
  /\ UNCHANGED <<wrapVars, chainVars, auth, conn, proxyVars, signLog>>
  /\ UNCHANGED call
  /\ UNCHANGED globalFetch

\* transportToServer.onclose
OnCloseRemote ==
  /\ Len(closeEvents) < MaxCloseEvents
  /\ closeEvents' = Append(closeEvents, "remote")
  /\ IF transportToClientClosed
     THEN UNCHANGED <<transportToServerClosed, closeCalls>>
     ELSE /\ transportToServerClosed' = TRUE
          /\ closeCalls' = Append(closeCalls, [on |-> "local", outcome |-> "pending"])
  /\ UNCHANGED transportToClientClosed
  /\ UNCHANGED <<wrapVars, chainVars, auth, conn, proxyVars, signLog>>
  /\ UNCHANGED call
  /\ UNCHANGED globalFetch

\* a close() promise settles; a rejection goes to onClientError /
\* onServerError, which only log
CloseSettles ==
  /\ \E i \in 1..Len(closeCalls), o \in {"ok", "rejected"} :
       /\ closeCalls[i].outcome = "pending"
       /\ closeCalls' = [closeCalls EXCEPT ![i].outcome = o]
  /\ UNCHANGED <<transportToClientClosed, transportToServerClosed, closeEvents>>
  /\ UNCHANGED <<wrapVars, chainVars, auth, conn, proxyVars, signLog>>
  /\ UNCHANGED call
  /\ UNCHANGED globalFetch

CloseCallsOn(side) == Cardinality({i \in 1..Len(closeCalls) : closeCalls[i].on = side})

CloseInit ==
  /\ transportToClientClosed = FALSE
  /\ transportToServerClosed = FALSE
  /\ closeCalls = <<>>
  /\ closeEvents = <<>>

(***************************************************************************)
(* connectToRemoteServer                                                   *)
(***************************************************************************)
Strategies == {"sse-only", "http-only", "sse-first", "http-first"}
FirstStrategies == {"sse-first", "http-first"}
ErrorMessages == {"HTTP 404", "Method Not Allowed", "protocol error", "ECONNREFUSED"}

\* the test applied to error.message in both catch blocks
IsProtocolLikeError_Any(message) == TRUE

IsProtocolLikeError(message) ==
  message \in {"HTTP 405", "Method Not Allowed", "HTTP 404", "Not Found", "protocol error"}

\* shouldAttemptFallback
ShouldAttemptFallback(strategy, reasons) ==
  strategy \in FirstStrategies /\ REASON_TRANSPORT_FALLBACK \notin reasons

useSSE(strategy, reasons) ==
  strategy = "sse-only"
  \/ (strategy = "sse-first" /\ REASON_TRANSPORT_FALLBACK \notin reasons)

useHTTP(strategy, reasons) ==
  strategy = "http-only"
  \/ (strategy = "http-first" /\ REASON_TRANSPORT_FALLBACK \notin reasons)

NoError == [message |-> None, attempt |-> 0, probe |-> FALSE]

ConnCall(strategy, reasons, token, hasCustomHeaders) ==
  [pc |-> "enter", strategy |-> strategy, recursionReasons |-> reasons,
   initialStrategy |-> strategy, initialReasons |-> reasons,
   token |-> token, hasCustomHeaders |-> hasCustomHeaders,
   depth |-> 0, kind |-> None,
   starts |-> <<>>,        \* transport kinds started, in order
   outcomes |-> <<>>,      \* how each start ended
   probes |-> 0,           \* probes run
   failures |-> <<>>,      \* the errors start and the probe rejected with, in order
   adds |-> 0,             \* recursionReasons.add calls
   result |-> [kind |-> None, transport |-> None, wrapper |-> None, error |-> NoError]]

ConnIdle == [ConnCall("http-first", {}, FALSE, FALSE) EXCEPT !.pc = "idle"]

\* the wrapper chosen for a connected transport
WrapperFor(token, hasCustomHeaders) ==
  IF token THEN "AuthRefreshTransportWrapper"
  ELSE IF hasCustomHeaders THEN "CustomHeadersTransportWrapper"
  ELSE None

ConnConnected(c) ==
  [c EXCEPT !.pc = "done",
            !.result = [kind |-> "connected", transport |-> c.kind,
                        wrapper |-> WrapperFor(c.token, c.hasCustomHeaders),
                        error |-> NoError]]

\* an error leaves the outermost call: no caller awaits the recursive call
\* inside a try block, so a nested rejection is the call's rejection
ConnThrow(c, e) ==
  [c EXCEPT !.pc = "done",
            !.result = [kind |-> "error", transport |-> None, wrapper |-> None, error |-> e]]

ConnRecurse(c, strategy) ==
  [c EXCEPT !.pc = "enter", !.strategy = strategy, !.depth = @ + 1, !.kind = None]

\* function entry: choose the transport kind, or resolve the second leg
ConnEnter_SameStrategy(c) ==
  IF useSSE(c.strategy, c.recursionReasons)
  THEN [c EXCEPT !.pc = "await-start", !.kind = "sse", !.starts = Append(@, "sse")]
  ELSE IF useHTTP(c.strategy, c.recursionReasons)
  THEN [c EXCEPT !.pc = "await-start", !.kind = "http", !.starts = Append(@, "http")]
  ELSE ConnRecurse(c, c.strategy)

ConnEnter(c) ==
  IF useSSE(c.strategy, c.recursionReasons)
  THEN [c EXCEPT !.pc = "await-start", !.kind = "sse", !.starts = Append(@, "sse")]
  ELSE IF useHTTP(c.strategy, c.recursionReasons)
  THEN [c EXCEPT !.pc = "await-start", !.kind = "http", !.starts = Append(@, "http")]
  ELSE ConnRecurse(c, IF c.strategy = "sse-first" THEN "http-only" ELSE "sse-only")

\* the outer catch block
ConnCatch_AlwaysFallback(c, e) ==
  IF IsProtocolLikeError(e.message)
  THEN ConnRecurse([c EXCEPT !.recursionReasons = @ \cup {REASON_TRANSPORT_FALLBACK},
                             !.adds = @ + 1],
                   c.strategy)
  ELSE ConnThrow(c, e)

ConnCatch(c, e) ==
  IF ShouldAttemptFallback(c.strategy, c.recursionReasons) /\ IsProtocolLikeError(e.message)
  THEN ConnRecurse([c EXCEPT !.recursionReasons = @ \cup {REASON_TRANSPORT_FALLBACK},
                             !.adds = @ + 1],
                   c.strategy)
  ELSE ConnThrow(c, e)

\* transport.start() settled
ConnStartOk(c) ==
  LET d == [c EXCEPT !.outcomes = Append(@, "ok")] IN
  IF c.kind # "sse"
  THEN [d EXCEPT !.pc = "await-probe", !.probes = @ + 1]
  ELSE ConnConnected(d)

ConnStartFails(c, message) ==
  LET e == [message |-> message, attempt |-> Len(c.starts), probe |-> FALSE] IN
  ConnCatch([c EXCEPT !.outcomes = Append(@, message), !.failures = Append(@, e)], e)

\* the probe (testClient.connect / testTransport.close) settled
ConnProbeFails(c, message) ==
  LET e == [message |-> message, attempt |-> Len(c.starts), probe |-> TRUE]
      d == [c EXCEPT !.failures = Append(@, e)] IN
  IF ShouldAttemptFallback(c.strategy, c.recursionReasons) /\ IsProtocolLikeError(message)
  THEN ConnRecurse([d EXCEPT !.recursionReasons = @ \cup {REASON_TRANSPORT_FALLBACK},
                             !.adds = @ + 1],
                   "sse-only")
  ELSE ConnCatch(d, e)


\* connectToRemoteServer is entered (also for each recursive call)
ConnectEnter ==
  /\ conn.pc = "enter"
  /\ conn.depth <= MaxDepth
  /\ conn' = ConnEnter(conn)
  /\ UNCHANGED <<wrapVars, chainVars, auth, closeVars, proxyVars, signLog>>
  /\ UNCHANGED call
  /\ UNCHANGED globalFetch

ConnectStartOk ==
  /\ conn.pc = "await-start"
  /\ conn' = ConnStartOk(conn)
  /\ UNCHANGED <<wrapVars, chainVars, auth, closeVars, proxyVars, signLog>>
  /\ UNCHANGED call
  /\ UNCHANGED globalFetch

ConnectStartFails ==
  /\ conn.pc = "await-start"
  /\ \E message \in ErrorMessages : conn' = ConnStartFails(conn, message)
  /\ UNCHANGED <<wrapVars, chainVars, auth, closeVars, proxyVars, signLog>>
  /\ UNCHANGED call
  /\ UNCHANGED globalFetch

ConnectProbeOk ==
  /\ conn.pc = "await-probe"
  /\ conn' = ConnConnected(conn)
  /\ UNCHANGED <<wrapVars, chainVars, auth, closeVars, proxyVars, signLog>>
  /\ UNCHANGED call
  /\ UNCHANGED globalFetch

ConnectProbeFails ==
  /\ conn.pc = "await-probe"
  /\ \E message \in ErrorMessages : conn' = ConnProbeFails(conn, message)
  /\ UNCHANGED <<wrapVars, chainVars, auth, closeVars, proxyVars, signLog>>
  /\ UNCHANGED call
  /\ UNCHANGED globalFetch

(***************************************************************************)
(* processPaymentAuthorization called directly                             *)
(***************************************************************************)
AuthTemplates ==
  {TplGood(1), TplGood(2), TplTrunc(1), TplShort, TplSepolia, TplNoSel, TplOther(2), TplBadTo,
   TplX402(1, BaseMainnet), TplX402(1, BaseSepolia)}

AuthTxInputs ==
  {TxAbsent, TxBadText, TxText(NullTpl)}
  \cup {TxObject(t) : t \in AuthTemplates} \cup {TxText(TplGood(1))}

AuthInputs ==
  {Req(1, "tools/call", FALSE, None, FALSE, "absent", TxAbsent),
   Req(1, "tools/call", TRUE, None, FALSE, "absent", TxAbsent)}
  \cup {ToolCall(1, ap, tx) : ap \in ApprovalVals, tx \in AuthTxInputs}

\* the call runs to its first await
ProcessPaymentAuthorization ==
  /\ auth.pc = "start"
  /\ \E r \in AuthNext(auth, walletChain, chainUsdc, chainEth, chainGas) :
       /\ auth' = r.a
       /\ walletChain' = r.w
       /\ signLog' = IF r.sign THEN Append(signLog, auth.msg) ELSE signLog
  /\ UNCHANGED <<chainUsdc, chainEth, chainGas>>
  /\ UNCHANGED <<wrapVars, closeVars, conn, proxyVars>>
  /\ UNCHANGED call
  /\ UNCHANGED globalFetch

\* an awaited WalletService call settles and the call runs to its next await
AuthResume ==
  /\ auth.pc \notin {"idle", "start", "done"}
  /\ \E r \in AuthNext(auth, walletChain, chainUsdc, chainEth, chainGas) :
       /\ auth' = r.a
       /\ walletChain' = r.w
       /\ signLog' = IF r.sign THEN Append(signLog, auth.msg) ELSE signLog
  /\ UNCHANGED <<chainUsdc, chainEth, chainGas>>
  /\ UNCHANGED <<wrapVars, closeVars, conn, proxyVars>>
  /\ UNCHANGED call
  /\ UNCHANGED globalFetch

(***************************************************************************)
(* Response payloads and protocol detection.  The body of a response is    *)
(* the data extractMCPResponseData takes out of it:                        *)
(*   where       : "error" or "result", the member that carried it         *)
(*   x402Version : 0 when absent                                           *)
(*   accepts     : "none" (no list), "empty", "decimal" (first entry with  *)
(*                 a decimal amount), "base", "base-sepolia"               *)
(*   error, code : the AgentPay indicators                                 *)
(*   content     : "none", or "null-item" (a content list holding null)    *)
(*   chainId     : of the embedded transaction, 0 when there is none       *)
(*   amount      : the amount asked for, atomic units                      *)
(***************************************************************************)
BodyPlain         == Body("result", 0, "none", None, 0, "none", 0, 0)
BodyAgentPay      == Body("error", 0, "none", "payment_required", 402, "none", BaseMainnet, 2)
BodyAgentPayNoTx  == Body("result", 0, "none", "payment_required", 402, "none", 0, 1)
BodyAgentPayChain == Body("error", 0, "none", "payment_required", 402, "none", 1, 1)
BodyAgentPayNull  == Body("result", 0, "none", None, 402, "null-item", 0, 1)
BodyX402Decimal   == Body("error", 1, "decimal", None, 0, "none", 0, 1)
BodyX402Sepolia   == Body("error", 1, "base-sepolia", None, 0, "none", 0, 2)

\* extractMCPResponseData: null for a message with neither error nor result
extractMCPResponseData(message) ==
  IF message.method # None THEN NoBody ELSE message.body

\* X402Protocol.isPaymentRequired
X402IsPaymentRequired_SupportedVersionOnly(response) ==
  /\ response # NoBody
  /\ response.x402Version = 1
  /\ response.accepts # "none"

X402IsPaymentRequired(response) ==
  /\ response # NoBody
  /\ response.x402Version # 0
  /\ response.accepts # "none"

\* AgentPayV002Protocol.isPaymentRequired: "yes", "no" or "throw"
AgentPayIsPaymentRequired(response) ==
  IF response = NoBody THEN "no"
  ELSE IF response.x402Version # 0 THEN "no"
  ELSE IF response.error = "payment_required" THEN "yes"
  ELSE IF response.code = 402 THEN "yes"
  ELSE IF response.content = "null-item" THEN "throw"
  ELSE IF response.content = "nested-text"
       THEN IF response.nested.x402Version # 0 THEN "no"
            ELSE IF response.nested.error = "payment_required" \/ response.nested.code = 402
                 THEN "yes" ELSE "no"
  ELSE "no"

\* ProtocolDetector.detectProtocol: the name of the first protocol in
\* priority order whose predicate holds; a predicate that throws is skipped
DetectIn_Unguarded(extractedData) ==
  IF extractedData = NoBody THEN None
  ELSE IF X402IsPaymentRequired(extractedData) THEN "x402"
  ELSE IF AgentPayIsPaymentRequired(extractedData) = "yes" THEN "agentpay-v002"
  ELSE IF AgentPayIsPaymentRequired(extractedData) = "throw" THEN "throw"
  ELSE None

DetectIn(extractedData) ==
  IF extractedData = NoBody THEN None
  ELSE IF X402IsPaymentRequired(extractedData) THEN "x402"
  ELSE IF AgentPayIsPaymentRequired(extractedData) = "yes" THEN "agentpay-v002"
  ELSE None

detectProtocol(message) == DetectIn(extractMCPResponseData(message))

\* PaymentHandler.isPaymentRequired
isPaymentRequired(message) == detectProtocol(message) # None

(***************************************************************************)
(* The envelope of a payload, as extractMCPResponseData reads it.          *)
(*   top      : "object", or "null" / "undefined" for no message at all    *)
(*   position : where the payload sits                                     *)
(*     "error.data", "error", "result" : that member is the payload        *)
(*     "content-text"   : result.content[0].text is its JSON text          *)
(*     "content-python" : ... is its Python dict text (single quotes)      *)
(*     "content-nested" : ... is the JSON text of {error: {data: payload}} *)
(*     "content-second" : content[0] is no text item, content[1].text is   *)
(*                        its JSON text                                    *)
(*     "content-unparsable" : content[0].text parses neither way           *)
(*     "content-nontext", "content-empty" : no text item, no item          *)
(*     "none", "empty"  : neither error nor result; the object {}          *)
(*   keyOrder : the order of the keys of the payload                       *)
(***************************************************************************)
Envelope(top, position, payload, keyOrder) ==
  [top |-> top, position |-> position, payload |-> payload, keyOrder |-> keyOrder]

PayloadPositions ==
  {"error.data", "error", "result", "content-text", "content-python", "content-nested"}

\* a result that is not in MCP content format is the extracted data itself
ResultWrapper(content, payload) ==
  [NoBody EXCEPT !.where = "result", !.content = content] @@ [nested |-> payload]

\* extractMCPResponseData / extractFromMCPContent on an envelope: nothing,
\* an object, or the raw text when the text cannot be parsed
ExtractEnvelope(env) ==
  IF env.top # "object" THEN [kind |-> "null", data |-> NoBody]
  ELSE IF env.position \in {"none", "empty"} THEN [kind |-> "null", data |-> NoBody]
  ELSE IF env.position \in PayloadPositions THEN [kind |-> "object", data |-> env.payload]
  ELSE IF env.position = "content-unparsable" THEN [kind |-> "string", data |-> NoBody]
  ELSE IF env.position = "content-second"
       THEN [kind |-> "object", data |-> ResultWrapper("nested-text", env.payload)]
  ELSE IF env.position = "content-nontext"
       THEN [kind |-> "object", data |-> ResultWrapper("nontext", NoBody)]
  ELSE [kind |-> "object", data |-> ResultWrapper("empty", NoBody)]

\* detectProtocol on an envelope; the 'in' test on extracted raw text
\* throws inside the try and gives null
DetectEnvelope(env) ==
  LET x == ExtractEnvelope(env) IN
  IF x.kind = "object" THEN DetectIn(x.data) ELSE None

\* a PaymentRequiredResponse: amount is the decimal text shown, chainId and
\* transaction are those of the template (0 and null when there is none)
NoDetails == [kind |-> "null", amount |-> formatUnits(0), chainId |-> 0,
              transaction |-> NullTpl]
Details(amount, chainId, transaction) ==
  [kind |-> "details", amount |-> amount, chainId |-> chainId,
   transaction |-> transaction]

\* X402Protocol.extractPaymentDetails: every failure is caught and gives
\* null.  accepts "decimal" and "non-integer" stand for a first entry on
\* network base whose maxAmountRequired has a decimal point, or is text
\* BigInt rejects; "base-lenient" for one on base whose maxAmountRequired is
\* no digit string but text BigInt reads all the same ("0x3e8", " 1000 ");
\* amount is the value BigInt reads
X402ExtractPaymentDetails(response) ==
  IF response.x402Version # 1 THEN NoDetails
  ELSE IF response.accepts \in {"none", "empty", "decimal", "non-integer"} THEN NoDetails
  ELSE IF response.amount <= 0 THEN NoDetails
  ELSE LET chainId == IF response.accepts = "base-sepolia" THEN BaseSepolia ELSE BaseMainnet IN
       Details(formatUnits(response.amount), chainId, TplX402(response.amount, chainId))

\* AgentPayV002Protocol.extractPaymentDetails: the response itself; reading
\* a null content item throws
AgentPayExtractPaymentDetails(response) ==
  IF response.error = "payment_required"
  THEN Details(formatUnits(response.amount), response.chainId,
               IF response.chainId = 0 THEN NullTpl
               ELSE [TplGood(response.amount) EXCEPT !.chainId = response.chainId])
  ELSE IF response.content = "null-item" THEN [NoDetails EXCEPT !.kind = "throw"]
  ELSE NoDetails

extractPaymentDetails(protocolName, response) ==
  IF protocolName = "x402" THEN X402ExtractPaymentDetails(response)
  ELSE AgentPayExtractPaymentDetails(response)

\* WalletService.configureForChain: the chain afterwards, 0 - 1 when it throws
configureForChain_AnyChain(w, chainId) == chainId

configureForChain(w, chainId) ==
  IF w = chainId THEN w
  ELSE IF chainId \notin {BaseMainnet, BaseSepolia} THEN 0 - 1
  ELSE chainId

(***************************************************************************)
(* What the proxy hands to transportToClient.send                          *)
(***************************************************************************)
NoExtra == [usdc |-> 0, eth |-> 0, sufficient |-> FALSE, gas |-> 0,
            amount |-> formatUnits(0), chainId |-> 0, transaction |-> NullTpl,
            request |-> 0, note |-> None]

\* a received message handed on as it is
ForwardOut(message) ==
  [kind |-> "forward", id |-> message.id, code |-> 0, message |-> None,
   errorType |-> None, text |-> None, instructions |-> None,
   content |-> message, extra |-> NoExtra, holder |-> None]

\* the errorResponse built by the local onmessage handler
\* `'id' in message ? message.id : 'error'`: id 0 stands for a message
\* without an id member (a notification), ErrorId for the text 'error'
ErrorId == 0 - 1

IdOrError(message) == IF message.id = 0 THEN ErrorId ELSE message.id

AuthErrorResponse(message, text) ==
  [kind |-> "error", id |-> IdOrError(message), code |-> PaymentErrorCode,
   message |-> "Payment authorization failed",
   errorType |-> "payment_authorization_failed", text |-> text,
   instructions |-> "Please fix the issue and retry with the same parameters.",
   content |-> Resp(message.id, NoBody), extra |-> NoExtra, holder |-> "error.data"]

\* PaymentHandler.createErrorResponse
createErrorResponse(original, errorMessage) ==
  [kind |-> "error", id |-> IdOrError(original), code |-> PaymentErrorCode,
   message |-> "Payment processing failed",
   errorType |-> "payment_configuration_failed", text |-> errorMessage,
   instructions |-> "Please check your configuration and try again.",
   content |-> Resp(original.id, NoBody), extra |-> NoExtra, holder |-> "error.data"]

\* PaymentHandler.createEnhancedMessage: a copy of the original whose error
\* (code -32001, the enhancement as its data) or result (one text item, the
\* enhancement serialized) is replaced; holder says where the enhancement is
createEnhancedMessage_ErrorAlways(original, enhancement) ==
  [kind |-> "enhanced", id |-> original.id,
   code |-> PaymentErrorCode, message |-> "Payment authorization required",
   errorType |-> None, text |-> None, instructions |-> None,
   content |-> Resp(original.id, NoBody), extra |-> enhancement,
   holder |-> "error.data"]

createEnhancedMessage(original, enhancement) ==
  [kind |-> "enhanced", id |-> original.id,
   code |-> IF original.body.where = "error" THEN PaymentErrorCode ELSE 0,
   message |-> IF original.body.where = "error"
               THEN "Payment authorization required" ELSE None,
   errorType |-> None, text |-> None, instructions |-> None,
   content |-> Resp(original.id, NoBody), extra |-> enhancement,
   holder |-> IF original.body.where = "error" THEN "error.data"
              ELSE "result.content[0].text"]

(***************************************************************************)
(* PaymentHandler.processPaymentRequired, one step per awaited call.       *)
(* result.kind is "message" when the call returned and "throw" when its    *)
(* promise was rejected.                                                   *)
(***************************************************************************)
NoEnrichResult == [kind |-> "none", out |-> ForwardOut(Resp(0, NoBody))]

EnrichCall(message, originalRequest) ==
  [pc |-> "start", msg |-> message, originalRequest |-> originalRequest,
   details |-> NoDetails, availableUsdc |-> 0, availableEth |-> 0, cost |-> 0,
   note |-> None, log |-> <<>>, result |-> NoEnrichResult]

EnrichReturn(e, out) ==
  [e EXCEPT !.pc = "done", !.result = [kind |-> "message", out |-> out]]

EnrichThrow(e) ==
  [e EXCEPT !.pc = "done", !.result = [kind |-> "throw", out |-> NoEnrichResult.out]]

\* the WalletService calls of a processPaymentRequired call, as its log
\* names them
EnrichLogged(e, ev) == [e EXCEPT !.log = Append(@, ev)]

\* up to the first await: detection, extraction, configureForChain
EnrichStart_GoOnUnconfigured(e, w) ==
  LET protocolName == detectProtocol(e.msg) IN
  IF protocolName = None THEN [e |-> EnrichReturn(e, ForwardOut(e.msg)), w |-> w]
  ELSE
  LET paymentDetails == extractPaymentDetails(protocolName, extractMCPResponseData(e.msg)) IN
  IF paymentDetails.kind = "throw" THEN [e |-> EnrichThrow(e), w |-> w]
  ELSE IF paymentDetails.kind = "null"
       THEN [e |-> EnrichReturn(e, ForwardOut(e.msg)), w |-> w]
  ELSE [e |-> [EnrichLogged(e, IF paymentDetails.chainId # 0
                                  /\ configureForChain(w, paymentDetails.chainId) < 0
                               THEN "configureForChain threw" ELSE "configureForChain")
                 EXCEPT !.pc = "await-balances", !.details = paymentDetails],
        w |-> IF paymentDetails.chainId # 0 /\ configureForChain(w, paymentDetails.chainId) > 0
              THEN configureForChain(w, paymentDetails.chainId) ELSE w]

EnrichStart(e, w) ==
  LET protocolName == detectProtocol(e.msg) IN
  IF protocolName = None THEN [e |-> EnrichReturn(e, ForwardOut(e.msg)), w |-> w]
  ELSE
  LET paymentDetails == extractPaymentDetails(protocolName, extractMCPResponseData(e.msg)) IN
  IF paymentDetails.kind = "throw" THEN [e |-> EnrichThrow(e), w |-> w]
  ELSE IF paymentDetails.kind = "null"
       THEN [e |-> EnrichReturn(e, ForwardOut(e.msg)), w |-> w]
  ELSE IF paymentDetails.chainId # 0 /\ configureForChain(w, paymentDetails.chainId) < 0
       THEN [e |-> EnrichReturn(EnrichLogged(e, "configureForChain threw"),
                                createErrorResponse(e.msg, "Chain configuration failed: ")),
             w |-> w]
  ELSE [e |-> [(IF paymentDetails.chainId # 0 THEN EnrichLogged(e, "configureForChain")
                ELSE e)
                 EXCEPT !.pc = "await-balances", !.details = paymentDetails],
        w |-> IF paymentDetails.chainId # 0
              THEN configureForChain(w, paymentDetails.chainId) ELSE w]

\* getWalletBalances settled; on success the synchronous start of
\* estimateTransactionGas
EnrichBalances(e, w, usdc, eth) ==
  { [e |-> EnrichReturn(EnrichLogged(e, "getWalletBalances threw"),
                        createErrorResponse(e.msg, "Unable to check wallet balances: ")),
     w |-> w] }
  \cup
  (IF w = 0 THEN {}
   ELSE { [e |-> [EnrichLogged(e, "getWalletBalances")
                    EXCEPT !.pc = "await-estimate",
                           !.availableUsdc = usdc, !.availableEth = eth],
           w |-> IF e.details.chainId # 0 /\ configureForChain(w, e.details.chainId) > 0
                 THEN configureForChain(w, e.details.chainId) ELSE w] })

\* estimateTransactionGas settled: the estimate of the node, or
\* fallbackGasCost with its note when there is no transaction or
\* estimateTxCost failed
EnrichEstimate_FailOnEstimate(e, w, gas) ==
  IF e.details.chainId = 0
  THEN { [e |-> [e EXCEPT !.pc = "await-format", !.cost = fallbackGasCost,
                          !.note = "No transaction provided for gas estimation"],
          w |-> w] }
  ELSE { [e |-> [EnrichLogged(e, "estimateTxCost")
                   EXCEPT !.pc = "await-format", !.cost = gas,
                          !.note = "Real-time gas estimate"],
          w |-> w],
         [e |-> EnrichReturn(EnrichLogged(e, "estimateTxCost threw"),
                             createErrorResponse(e.msg, "Gas estimation failed: ")),
          w |-> w] }

EnrichEstimate(e, w, gas) ==
  IF e.details.chainId = 0
  THEN { [e |-> [e EXCEPT !.pc = "await-format", !.cost = fallbackGasCost,
                          !.note = "No transaction provided for gas estimation"],
          w |-> w] }
  ELSE { [e |-> [EnrichLogged(e, "estimateTxCost")
                   EXCEPT !.pc = "await-format", !.cost = gas,
                          !.note = "Real-time gas estimate"],
          w |-> w],
         [e |-> [EnrichLogged(e, "estimateTxCost threw")
                   EXCEPT !.pc = "await-format", !.cost = fallbackGasCost,
                          !.note = "Gas estimation failed: "],
          w |-> w] }

\* formatForUser settled; formatForAgent and createEnhancedMessage
EnrichFormat(e, w) ==
  { [e |-> EnrichReturn(e, createEnhancedMessage(e.msg,
             [usdc |-> e.availableUsdc, eth |-> e.availableEth,
              sufficient |-> (e.availableUsdc >= parseFloat(e.details.amount)
                              /\ GasSufficient(e.availableEth, e.cost)),
              gas |-> e.cost, amount |-> e.details.amount,
              chainId |-> e.details.chainId, transaction |-> e.details.transaction,
              request |-> e.originalRequest, note |-> e.note])),
     w |-> w] }

EnrichNext(e, w, usdc, eth, gas) ==
  CASE e.pc = "start"          -> { EnrichStart(e, w) }
    [] e.pc = "await-balances" -> EnrichBalances(e, w, usdc, eth)
    [] e.pc = "await-estimate" -> EnrichEstimate(e, w, gas)
    [] e.pc = "await-format"   -> EnrichFormat(e, w)
    [] OTHER                   -> {}

(***************************************************************************)
(* mcpProxy: the two onmessage handlers.  A handler invocation runs up to  *)
(* its first await inside the action that receives the message; each       *)
(* awaited call that settles is a further step, and so is the continuation *)
(* of the handler after processPaymentAuthorization or                     *)
(* processPaymentRequired has settled.                                     *)
(***************************************************************************)
\* the client name written into an initialize request
ViaName(name) == name \o " (via agentauth-mcp " \o VERSION \o ")"

\* the handler up to the payment check: destructuring the params of an
\* initialize request throws when there are none; clientInfo.name is
\* rewritten in the received object
LocalPrefix(message) ==
  IF message.method = "initialize"
  THEN IF ~message.hasParams THEN [threw |-> TRUE, msg |-> message]
       ELSE IF message.clientName # None
            THEN [threw |-> FALSE, msg |-> [message EXCEPT !.clientName = ViaName(@)]]
            ELSE [threw |-> FALSE, msg |-> message]
  ELSE [threw |-> FALSE, msg |-> message]

\* the handler after processPaymentAuthorization settled: what goes to the
\* local side, which headers are staged, and whether the message is sent on
LocalContinue_NoReturn(message, result, wrapped) ==
  [toLocal |-> IF result.kind = "error"
               THEN <<AuthErrorResponse(message, result.text)>> ELSE <<>>,
   stage |-> IF result.kind = "headers" /\ wrapped THEN result.headers ELSE None,
   forward |-> TRUE]

LocalContinue(message, result, wrapped) ==
  IF result.kind = "error"
  THEN [toLocal |-> <<AuthErrorResponse(message, result.text)>>,
        stage |-> None, forward |-> FALSE]
  ELSE [toLocal |-> <<>>,
        stage |-> IF result.kind = "headers" /\ wrapped THEN result.headers ELSE None,
        forward |-> TRUE]

\* the handler after processPaymentRequired settled: its output, or the
\* original message when the promise was rejected
RemoteContinue_DropOnThrow(message, result) ==
  IF result.kind = "message" THEN <<result.out>> ELSE <<>>

RemoteContinue(message, result) ==
  IF result.kind = "message" THEN <<result.out>> ELSE <<ForwardOut(message)>>

LocalHandler(pc, message, a) == [pc |-> pc, msg |-> message, a |-> a, staged |-> None]
RemoteHandler(pc, e) == [pc |-> pc, e |-> e]

LocalInputs(id) ==
  { Req(id, "tools/call", TRUE, None, TRUE, "absent", TxAbsent),
    Req(id, "initialize", TRUE, "client", FALSE, "absent", TxAbsent),
    Req(id, "initialize", FALSE, None, FALSE, "absent", TxAbsent),
    ToolCall(id, "true", TxObject(TplGood(1))),
    ToolCall(id, "'true'", TxText(TplSepolia)),
    ToolCall(id, "'yes'", TxObject(TplGood(1))),
    ToolCall(id, "true", TxObject(TplTrunc(2))),
    Resp(id, BodyPlain) }

RemoteInputs(id) ==
  { Resp(id, b) : b \in {BodyPlain, BodyAgentPay, BodyAgentPayChain,
                         BodyAgentPayNull, BodyX402Decimal} }
  \cup { Req(id, "notifications/message", TRUE, None, FALSE, "absent", TxAbsent) }
  \cup { Resp(id + 1, BodyAgentPay) }

\* transportToServer.send(message)
SendToServer(i, message) ==
  /\ toRemote' = Append(toRemote, [src |-> i, msg |-> message])
  /\ sendQueue' = IF remoteWrapped THEN Append(sendQueue, i) ELSE sendQueue

\* `if ('method' in message) lastRequest = message`: the record holds the
\* position of the message among those received from the local side
StoreLastRequest_AnyMessage(message, i, last) == i

StoreLastRequest(message, i, last) == IF message.method # None THEN i ELSE last

\* transportToClient.onmessage(message)
LocalReceive ==
  /\ Len(localIn) + Len(remoteIn) < MaxMsgs
  /\ \E m \in LocalInputs(Len(localIn) + 1) :
       LET i == Len(localIn) + 1
           p == LocalPrefix(m) IN
       /\ localIn' = Append(localIn, m)
       /\ lastRequest' = StoreLastRequest(m, i, lastRequest)
       /\ IF p.threw
          THEN /\ localH' = Append(localH, LocalHandler("threw", p.msg, AuthIdle))
               /\ UNCHANGED <<toRemote, sendQueue>>
          ELSE IF hasWallet /\ hasPaymentAuthorization(p.msg)
          THEN /\ localH' = Append(localH, LocalHandler("auth", p.msg, AuthStart(AuthCall(p.msg))))
               /\ UNCHANGED <<toRemote, sendQueue>>
          ELSE /\ localH' = Append(localH, LocalHandler("done", p.msg, AuthIdle))
               /\ SendToServer(i, p.msg)
  /\ UNCHANGED <<pendingPaymentHeaders, fetchLog, inflight, wrapHist>>
  /\ UNCHANGED <<chainVars, auth, closeVars, conn, signLog>>
  /\ UNCHANGED <<hasWallet, remoteWrapped, remoteIn, remoteH, toLocal>>
  /\ UNCHANGED call
  /\ UNCHANGED globalFetch

\* a WalletService call awaited by processPaymentAuthorization settles
LocalAuthStep ==
  /\ \E i \in 1..Len(localH) :
       /\ localH[i].pc = "auth"
       /\ localH[i].a.pc # "done"
       /\ \E r \in AuthNext(localH[i].a, walletChain, chainUsdc, chainEth, chainGas) :
            /\ localH' = [localH EXCEPT ![i].a = r.a]
            /\ walletChain' = r.w
            /\ signLog' = IF r.sign THEN Append(signLog, localH[i].msg) ELSE signLog
  /\ UNCHANGED <<chainUsdc, chainEth, chainGas>>
  /\ UNCHANGED <<wrapVars, auth, closeVars, conn>>
  /\ UNCHANGED <<hasWallet, remoteWrapped, lastRequest, localIn, remoteIn, remoteH,
                 toRemote, toLocal>>
  /\ UNCHANGED call
  /\ UNCHANGED globalFetch

\* the local handler resumes with the result of processPaymentAuthorization
LocalAuthDone ==
  /\ \E i \in 1..Len(localH) :
       /\ localH[i].pc = "auth"
       /\ localH[i].a.pc = "done"
       /\ LET c == LocalContinue(localH[i].msg, localH[i].a.result, remoteWrapped) IN
            /\ localH' = [localH EXCEPT ![i].pc = "done", ![i].staged = c.stage]
            /\ toLocal' = toLocal \o [k \in 1..Len(c.toLocal) |->
                                        [dir |-> "local", src |-> i, out |-> c.toLocal[k]]]
            /\ IF c.stage # None
               THEN StageOp(c.stage)
               ELSE UNCHANGED <<pendingPaymentHeaders, wrapHist>>
            /\ IF c.forward
               THEN SendToServer(i, localH[i].msg)
               ELSE UNCHANGED <<toRemote, sendQueue>>
  /\ UNCHANGED <<fetchLog, inflight>>
  /\ UNCHANGED <<chainVars, auth, closeVars, conn, signLog>>
  /\ UNCHANGED <<hasWallet, remoteWrapped, lastRequest, localIn, remoteIn, remoteH>>
  /\ UNCHANGED call
  /\ UNCHANGED globalFetch

\* transportToServer.onmessage(message)
RemoteReceive ==
  /\ Len(localIn) + Len(remoteIn) < MaxMsgs
  /\ \E m \in RemoteInputs(Len(remoteIn) + 1) :
       LET j == Len(remoteIn) + 1 IN
       /\ remoteIn' = Append(remoteIn, m)
       /\ IF hasWallet /\ isPaymentRequired(m)
          THEN LET r == EnrichStart(EnrichCall(m, lastRequest), walletChain) IN
               /\ remoteH' = Append(remoteH, RemoteHandler("enrich", r.e))
               /\ walletChain' = r.w
               /\ UNCHANGED toLocal
          ELSE /\ remoteH' = Append(remoteH, RemoteHandler("done", EnrichCall(m, 0)))
               /\ toLocal' = Append(toLocal, [dir |-> "remote", src |-> j,
                                              out |-> ForwardOut(m)])
               /\ UNCHANGED walletChain
  /\ UNCHANGED <<chainUsdc, chainEth, chainGas>>
  /\ UNCHANGED <<wrapVars, auth, closeVars, conn, signLog>>
  /\ UNCHANGED <<hasWallet, remoteWrapped, lastRequest, localIn, localH, toRemote>>
  /\ UNCHANGED call
  /\ UNCHANGED globalFetch

\* a call awaited by processPaymentRequired settles
RemoteEnrichStep ==
  /\ \E j \in 1..Len(remoteH) :
       /\ remoteH[j].pc = "enrich"
       /\ remoteH[j].e.pc # "done"
       /\ \E r \in EnrichNext(remoteH[j].e, walletChain, chainUsdc, chainEth, chainGas) :
            /\ remoteH' = [remoteH EXCEPT ![j].e = r.e]
            /\ walletChain' = r.w
  /\ UNCHANGED <<chainUsdc, chainEth, chainGas>>
  /\ UNCHANGED <<wrapVars, auth, closeVars, conn, signLog>>
  /\ UNCHANGED <<hasWallet, remoteWrapped, lastRequest, localIn, remoteIn, localH,
                 toRemote, toLocal>>
  /\ UNCHANGED call
  /\ UNCHANGED globalFetch

\* the remote handler resumes after processPaymentRequired returned or threw
RemoteEnrichDone ==
  /\ \E j \in 1..Len(remoteH) :
       /\ remoteH[j].pc = "enrich"
       /\ remoteH[j].e.pc = "done"
       /\ LET outs == RemoteContinue(remoteIn[j], remoteH[j].e.result) IN
            /\ remoteH' = [remoteH EXCEPT ![j].pc = "done"]
            /\ toLocal' = toLocal \o [k \in 1..Len(outs) |->
                                        [dir |-> "remote", src |-> j, out |-> outs[k]]]
  /\ UNCHANGED <<wrapVars, chainVars, auth, closeVars, conn, signLog>>
  /\ UNCHANGED <<hasWallet, remoteWrapped, lastRequest, localIn, remoteIn, localH, toRemote>>
  /\ UNCHANGED call
  /\ UNCHANGED globalFetch

\* no function call under study
NoCall == [fn |-> "none", arg |-> 0, out |-> 0]

(***************************************************************************)
(* detectProtocol / isPaymentRequired applied to one message               *)
(***************************************************************************)
DetectPayloads ==
  { Body("error", v, acc, e, c, cont, 0, 1) :
      v \in {0, 1, 2}, acc \in {"none", "empty", "base"},
      e \in {None, "payment_required"}, c \in {0, 402}, cont \in {"none", "null-item"} }

DetectInputs ==
  { Envelope("object", pos, p, ko) :
      pos \in PayloadPositions \cup {"content-second"}, p \in DetectPayloads,
      ko \in {"x402-first", "agentpay-first"} }
  \cup { Envelope(top, "none", NoBody, "x402-first") : top \in {"null", "undefined"} }
  \cup { Envelope("object", pos, NoBody, "x402-first") :
           pos \in {"none", "empty", "content-unparsable", "content-nontext",
                    "content-empty", "result", "error"} }

PendingDetect == [done |-> FALSE, name |-> None, required |-> FALSE]

\* detectProtocol(message) returns; isPaymentRequired(message) is whether
\* it returned a detection
DetectProtocolCall ==
  /\ call.fn = "detectProtocol"
  /\ ~call.out.done
  /\ call' = [call EXCEPT !.out = [done |-> TRUE, name |-> DetectEnvelope(call.arg),
                                    required |-> DetectEnvelope(call.arg) # None]]
  /\ UNCHANGED <<wrapVars, chainVars, auth, closeVars, conn, proxyVars, signLog>>
  /\ UNCHANGED globalFetch

(***************************************************************************)
(* Functions of the gateway applied to one argument                        *)
(***************************************************************************)
PendingCall == [done |-> FALSE, value |-> None]
Returned(value) == [done |-> TRUE, value |-> value]

\* what hasPaymentAuthorization is given: null, undefined, or an object
\* ({} is the request without method, params and id)
HasAuthInputs ==
  { [top |-> t, msg |-> Resp(0, NoBody)] : t \in {"null", "undefined", "object"} }
  \cup { [top |-> "object",
          msg |-> Req(1, method, hasParams, None, hasParams /\ hasArgs,
                      IF hasParams /\ hasArgs THEN approved ELSE "absent",
                      IF hasParams /\ hasArgs THEN [kind |-> k, tpl |-> NullTpl]
                      ELSE TxAbsent)] :
            method \in {"tools/call", "resources/read"},
            hasParams \in BOOLEAN, hasArgs \in BOOLEAN, approved \in ApprovalVals,
            k \in TxFalsyKinds \cup {"object", "text", "badtext"} }

\* hasPaymentAuthorization(message) returns
HasPaymentAuthorizationCall ==
  /\ call.fn = "hasPaymentAuthorization"
  /\ ~call.out.done
  /\ call' = [call EXCEPT !.out =
       Returned(IF call.arg.top = "object"
                THEN (IF hasPaymentAuthorization(call.arg.msg) THEN "true" ELSE "false")
                ELSE "false")]
  /\ UNCHANGED <<wrapVars, chainVars, auth, closeVars, conn, proxyVars, signLog>>
  /\ UNCHANGED globalFetch

\* CHAIN_CONFIGS: its keys in the order Object.keys lists them, and the
\* usdcAddress of an entry
SupportedChains == <<BaseMainnet, BaseSepolia>>

UsdcAddress(chainId) ==
  IF chainId = BaseMainnet THEN "0x833589fCD6eDb6E08f4c7C32D4f71b54bdA02913"
  ELSE IF chainId = BaseSepolia THEN "0x036CbD53842c5426634e7929541eC2318f3dCF7e"
  ELSE None

isConfigured(w) == w # 0

\* what a call on the WalletService gave: a value, or an Error whose message
\* is text, after the prefix of the catch block that rethrew it (wrappedBy)
\* if any, and with the list it names
WalletReturn(value) ==
  [kind |-> "return", value |-> value, wrappedBy |-> None, message |-> None,
   supported |-> <<>>]

WalletThrow(wrappedBy, message, supported) ==
  [kind |-> "throw", value |-> None, wrappedBy |-> wrappedBy, message |-> message,
   supported |-> supported]

ChainNotConfigured == "Chain not configured. Call configureForChain() first."

\* the methods that need a chain; getWalletBalances and signTransaction
\* check inside their try block, so their catch rethrows the error
ChainDependentOperations ==
  {"getUsdcContractAddress", "getEthBalance", "getUsdcBalance", "getWalletBalances",
   "getGasPrice", "estimateGas", "estimateTxCost", "getTransactionCount",
   "signTransaction"}

ChainDependentOperation_Unguarded(w, op) ==
  IF op = "getUsdcContractAddress" THEN { WalletReturn(UsdcAddress(w)) }
  ELSE { WalletReturn("value"), WalletThrow(op, "provider error", <<>>) }

ChainDependentOperation(w, op) ==
  IF ~isConfigured(w)
  THEN { WalletThrow(IF op \in {"getWalletBalances", "signTransaction"} THEN op ELSE None,
                     ChainNotConfigured, <<>>) }
  ELSE IF op = "getUsdcContractAddress" THEN { WalletReturn(UsdcAddress(w)) }
  ELSE { WalletReturn("value"), WalletThrow(op, "provider error", <<>>) }

\* the chain ids configureForChain is called with
ChainIds == {BaseMainnet, BaseSepolia, 1}

WalletCalled(op, chainId, result) ==
  call' = [call EXCEPT !.out = Append(@,
             [op |-> op, chainId |-> chainId, before |-> walletChain, result |-> result])]

\* walletService.configureForChain(chainId) on a wallet made from a token
WalletConfigureForChain ==
  /\ call.fn = "WalletService"
  /\ Len(call.out) < MaxWalletCalls
  /\ \E chainId \in ChainIds :
       LET after == configureForChain(walletChain, chainId) IN
       IF after < 0
       THEN /\ WalletCalled("configureForChain", chainId,
                            WalletThrow(None, "Unsupported chain ID", SupportedChains))
            /\ UNCHANGED walletChain
       ELSE /\ WalletCalled("configureForChain", chainId, WalletReturn(None))
            /\ walletChain' = after
  /\ UNCHANGED <<chainUsdc, chainEth, chainGas>>
  /\ UNCHANGED <<wrapVars, auth, closeVars, conn, proxyVars, signLog>>
  /\ UNCHANGED globalFetch

\* one of the chain-dependent methods called on that wallet
WalletOperation ==
  /\ call.fn = "WalletService"
  /\ Len(call.out) < MaxWalletCalls
  /\ \E op \in ChainDependentOperations :
       \E result \in ChainDependentOperation(walletChain, op) :
         WalletCalled(op, 0, result)
  /\ UNCHANGED <<wrapVars, chainVars, auth, closeVars, conn, proxyVars, signLog>>
  /\ UNCHANGED globalFetch

\* ProtocolDetector: the object after its constructor.  An array handed to
\* the caller is either the detector's own list or a fresh one (ref).
ProtocolNames == {"x402", "agentpay-v002", "custom-a", "custom-b"}

NoArray == [ref |-> "none", items |-> <<>>]

ProtocolDetector(protocols) ==
  [protocols |-> protocols, protocolPriority |-> <<"x402", "agentpay-v002">>,
   returned |-> NoArray, registrations |-> 0]

Includes(list, name) == \E i \in DOMAIN list : list[i] = name

\* Array.from(this.protocols.keys()), as the set of its names
getRegisteredProtocols(detector) == detector.protocols

getProtocolPriority_Alias(detector) ==
  [ref |-> "protocolPriority", items |-> detector.protocolPriority]

getProtocolPriority(detector) ==
  [ref |-> "fresh", items |-> detector.protocolPriority]

registerProtocol(detector, name) ==
  [detector EXCEPT !.protocols = @ \cup {name},
                   !.protocolPriority = IF Includes(@, name) THEN @ ELSE Append(@, name),
                   !.registrations = @ + 1]

\* detector.registerProtocol(name, protocol)
RegisterProtocolCall ==
  /\ call.fn = "ProtocolDetector"
  /\ call.out.registrations < MaxRegistrations
  /\ \E name \in ProtocolNames : call' = [call EXCEPT !.out = registerProtocol(@, name)]
  /\ UNCHANGED <<wrapVars, chainVars, auth, closeVars, conn, proxyVars, signLog>>
  /\ UNCHANGED globalFetch

\* detector.getProtocolPriority()
GetProtocolPriorityCall ==
  /\ call.fn = "ProtocolDetector"
  /\ call' = [call EXCEPT !.out.returned = getProtocolPriority(call.out)]
  /\ UNCHANGED <<wrapVars, chainVars, auth, closeVars, conn, proxyVars, signLog>>
  /\ UNCHANGED globalFetch

\* the caller pushes a name onto the array it was given, or empties it
CallerChangesArray ==
  /\ call.fn = "ProtocolDetector"
  /\ call.out.returned.ref # "none"
  /\ \E items \in { Append(call.out.returned.items, name) : name \in ProtocolNames }
                   \cup {<<>>} :
       /\ Len(items) <= MaxRegistrations + 2
       /\ call' = [call EXCEPT !.out.returned.items = items,
                                !.out.protocolPriority =
                                   IF call.out.returned.ref = "protocolPriority"
                                   THEN items ELSE @]
  /\ UNCHANGED <<wrapVars, chainVars, auth, closeVars, conn, proxyVars, signLog>>
  /\ UNCHANGED globalFetch

\* the responses processPaymentRequired is given here: x402 payloads whose
\* first accepts entry is well formed but for its maxAmountRequired, with
\* or without an AgentPay error beside them
X402Amounts == {0 - 1, 0, 1000, 1000000, 1500000}

PaymentRequiredInputs ==
  { Resp(1, Body(where, x402Version, accepts, error, IF error = None THEN 0 ELSE 402,
                 "none", IF error = None THEN 0 ELSE BaseMainnet, amount)) :
      where \in {"error", "result"}, x402Version \in {1, 2},
      accepts \in {"none", "empty", "decimal", "non-integer", "base-lenient", "base",
                   "base-sepolia"},
      error \in {None, "payment_required"}, amount \in X402Amounts }
  \cup { Resp(id, b) : id \in {1, 2},
                       b \in {BodyPlain, BodyAgentPay, BodyAgentPayNoTx,
                              BodyAgentPayChain, BodyAgentPayNull} }

\* balances and node estimates a processPaymentRequired call may meet: USDC
\* in millionths around the challenged amounts, ETH and gas in units of
\* 0.00001 ETH around fallbackGasCost
EnrichUsdcBalances == {999, 1000, 1000000}
EnrichEthBalances == {fallbackGasCost, fallbackGasCost + 1}
EnrichGasEstimates == {fallbackGasCost - 2, fallbackGasCost + 1}

\* processPaymentRequired(message, originalRequest) runs to its next await,
\* or returns
ProcessPaymentRequiredCall ==
  /\ call.fn = "processPaymentRequired"
  /\ \E r \in EnrichNext(call.out, walletChain, chainUsdc, chainEth, chainGas) :
       /\ call' = [call EXCEPT !.out = r.e]
       /\ walletChain' = r.w
  /\ UNCHANGED <<chainUsdc, chainEth, chainGas>>
  /\ UNCHANGED <<wrapVars, auth, closeVars, conn, proxyVars, signLog>>
  /\ UNCHANGED globalFetch

(***************************************************************************)
(* fixTruncatedTransactionData of either descriptor applied to a template, *)
(* and again to what it returned                                           *)
(***************************************************************************)
RepairTemplates ==
  { [protocolName |-> n,
     template |-> Tpl(to, sel, len, amt, hexOk, TRUE, BaseMainnet, TRUE)] :
      n \in {"agentpay-v002", "x402"},
      to \in {"usdc", "addr"}, sel \in BOOLEAN,
      len \in {0, 10, 73, SelectorAndRecipientLen, 100, 137, FullTransferLen, 200},
      amt \in 0..1, hexOk \in BOOLEAN }

\* data of at most 74 characters has no amount digits
RepairInputs ==
  { i \in RepairTemplates :
      i.template.len <= SelectorAndRecipientLen => i.template.amt = 0 }

\* the function returns for the template, or for its own previous result
FixTruncatedTransactionDataCall ==
  /\ call.fn = "fixTruncatedTransactionData"
  /\ Len(call.out) < MaxRepairs
  /\ call' = [call EXCEPT !.out = Append(@,
                ProtocolFixTruncatedTransactionData(call.arg.protocolName,
                  IF call.out = <<>> THEN call.arg.template
                  ELSE call.out[Len(call.out)]))]
  /\ UNCHANGED <<wrapVars, chainVars, auth, closeVars, conn, proxyVars, signLog>>
  /\ UNCHANGED globalFetch

(***************************************************************************)
(* Initial states                                                          *)
(***************************************************************************)
ChainIdle ==
  /\ walletChain = 0
  /\ chainUsdc = 1
  /\ chainEth = 6
  /\ chainGas = 3

ProxyIdle ==
  /\ hasWallet = FALSE
  /\ remoteWrapped = FALSE
  /\ lastRequest = 0
  /\ localIn = <<>>
  /\ remoteIn = <<>>
  /\ localH = <<>>
  /\ remoteH = <<>>
  /\ toRemote = <<>>
  /\ toLocal = <<>>

InitWrap ==
  /\ WrapInit /\ globalFetch = "interceptFetch"
  /\ ChainIdle /\ auth = AuthIdle /\ CloseInit /\ conn = ConnIdle
  /\ ProxyIdle /\ signLog = <<>> /\ call = NoCall

InitAuth ==
  /\ WrapInit /\ globalFetch = "interceptFetch"
  /\ CloseInit /\ conn = ConnIdle /\ ProxyIdle /\ signLog = <<>> /\ call = NoCall
  /\ walletChain \in {0, BaseMainnet, BaseSepolia}
  /\ chainUsdc \in 0..2
  /\ chainEth \in {3, 5, 6}
  /\ chainGas \in {3, 5}
  /\ \E m \in AuthInputs : auth = AuthCall(m)

InitClose ==
  /\ WrapInit /\ globalFetch = "interceptFetch"
  /\ ChainIdle /\ auth = AuthIdle /\ CloseInit /\ conn = ConnIdle
  /\ ProxyIdle /\ signLog = <<>> /\ call = NoCall

InitConn ==
  /\ WrapInit /\ globalFetch = "interceptFetch"
  /\ ChainIdle /\ auth = AuthIdle /\ CloseInit /\ ProxyIdle /\ signLog = <<>> /\ call = NoCall
  /\ \E strategy \in Strategies, reasons \in SUBSET {REASON_TRANSPORT_FALLBACK},
        token \in BOOLEAN, hasCustomHeaders \in BOOLEAN :
       conn = ConnCall(strategy, reasons, token, hasCustomHeaders)

\* mcpProxy with or without a wallet, on a wrapped or a plain remote
\* transport; a wallet may have been configured by an earlier challenge
InitProxy ==
  /\ WrapInit
  /\ CloseInit /\ auth = AuthIdle /\ conn = ConnIdle /\ signLog = <<>> /\ call = NoCall
  /\ hasWallet \in BOOLEAN
  /\ remoteWrapped \in BOOLEAN
  /\ globalFetch = (IF remoteWrapped THEN "interceptFetch" ELSE "originalFetch")
  /\ walletChain \in (IF hasWallet THEN {0, BaseMainnet} ELSE {0})
  /\ chainUsdc = 1 /\ chainEth = 6 /\ chainGas = 3
  /\ lastRequest = 0
  /\ localIn = <<>> /\ remoteIn = <<>> /\ localH = <<>> /\ remoteH = <<>>
  /\ toRemote = <<>> /\ toLocal = <<>>

InitDetect ==
  /\ WrapInit /\ globalFetch = "interceptFetch"
  /\ ChainIdle /\ auth = AuthIdle /\ CloseInit /\ conn = ConnIdle
  /\ ProxyIdle /\ signLog = <<>>
  /\ \E env \in DetectInputs :
       call = [fn |-> "detectProtocol", arg |-> env, out |-> PendingDetect]

InitRepair ==
  /\ WrapInit /\ globalFetch = "interceptFetch"
  /\ ChainIdle /\ auth = AuthIdle /\ CloseInit /\ conn = ConnIdle
  /\ ProxyIdle /\ signLog = <<>>
  /\ \E i \in RepairInputs :
       call = [fn |-> "fixTruncatedTransactionData", arg |-> i, out |-> <<>>]

\* the protocol maps given to the constructor: none, the two defaults of
\* PaymentHandler, and a map with a name of its own besides x402
ConstructorMaps == {{}, {"x402", "agentpay-v002"}, {"custom-a", "x402"}}

\* the detectors reachable by the constructor and n calls of registerProtocol
RECURSIVE DetectorsAfter(_)
DetectorsAfter(n) ==
  IF n = 0 THEN { ProtocolDetector(protocols) : protocols \in ConstructorMaps }
  ELSE LET D == DetectorsAfter(n - 1) IN
       D \cup { registerProtocol(detector, name) : detector \in D, name \in ProtocolNames }

\* what isPaymentRequired of each registered protocol does with the data
PredicateOutcomes == [ProtocolNames -> {"yes", "no", "throw"}]

\* the loop of detectProtocol from position i of protocolPriority: names
\* without a protocol in the map are skipped, a predicate that returns false
\* or throws lets the loop go on, the first that returns true ends it;
\* consulted lists the predicates called and the data each was given
RECURSIVE DetectFrom_StopOnThrow(_, _, _, _, _)
DetectFrom_StopOnThrow(detector, outcome, extractedData, i, consulted) ==
  IF i > Len(detector.protocolPriority)
  THEN [name |-> None, extractedData |-> NoBody, consulted |-> consulted]
  ELSE LET protocolName == detector.protocolPriority[i]
           called == Append(consulted, [name |-> protocolName, data |-> extractedData]) IN
       IF protocolName \notin detector.protocols
       THEN DetectFrom_StopOnThrow(detector, outcome, extractedData, i + 1, consulted)
       ELSE IF outcome[protocolName] = "yes"
       THEN [name |-> protocolName, extractedData |-> extractedData, consulted |-> called]
       ELSE IF outcome[protocolName] = "throw"
       THEN [name |-> None, extractedData |-> NoBody, consulted |-> called]
       ELSE DetectFrom_StopOnThrow(detector, outcome, extractedData, i + 1, called)

RECURSIVE DetectFrom(_, _, _, _, _)
DetectFrom(detector, outcome, extractedData, i, consulted) ==
  IF i > Len(detector.protocolPriority)
  THEN [name |-> None, extractedData |-> NoBody, consulted |-> consulted]
  ELSE LET protocolName == detector.protocolPriority[i]
           called == Append(consulted, [name |-> protocolName, data |-> extractedData]) IN
       IF protocolName \notin detector.protocols
       THEN DetectFrom(detector, outcome, extractedData, i + 1, consulted)
       ELSE IF outcome[protocolName] = "yes"
       THEN [name |-> protocolName, extractedData |-> extractedData, consulted |-> called]
       ELSE DetectFrom(detector, outcome, extractedData, i + 1, called)

\* ProtocolDetector.detectProtocol(message) on a detector with the given
\* predicates: the data is extracted once, before the loop
DetectWith(detector, outcome, message) ==
  LET extractedData == extractMCPResponseData(message) IN
  IF extractedData = NoBody
  THEN [name |-> None, extractedData |-> NoBody, consulted |-> <<>>]
  ELSE DetectFrom(detector, outcome, extractedData, 1, <<>>)

\* detector.detectProtocol(message) returns
DetectWithCall ==
  /\ call.fn = "detectProtocol"
  /\ ~call.out.done
  /\ call' = [call EXCEPT !.out =
       Returned(DetectWith(call.arg.detector, call.arg.outcome, call.arg.message))]
  /\ UNCHANGED <<wrapVars, chainVars, auth, closeVars, conn, proxyVars, signLog>>
  /\ UNCHANGED globalFetch

InitCalls ==
  /\ WrapInit /\ globalFetch = "interceptFetch"
  /\ CloseInit /\ conn = ConnIdle
  /\ ProxyIdle /\ signLog = <<>>
  /\ call \in { [fn |-> "hasPaymentAuthorization", arg |-> x, out |-> PendingCall] :
                  x \in HasAuthInputs }
            \cup { [fn |-> "processPaymentRequired", arg |-> m, out |-> EnrichCall(m, 0)] :
                     m \in PaymentRequiredInputs }
            \cup { [fn |-> "WalletService", arg |-> "token", out |-> <<>>] }
            \cup { [fn |-> "ProtocolDetector", arg |-> protocols,
                     out |-> ProtocolDetector(protocols)] :
                     protocols \in ConstructorMaps }
            \cup { [fn |-> "detectProtocol",
                     arg |-> [detector |-> detector, outcome |-> outcome, message |-> m],
                     out |-> PendingCall] :
                     detector \in DetectorsAfter(MaxRegistrations - 1),
                     outcome \in PredicateOutcomes,
                     m \in {Resp(1, BodyAgentPay), Resp(1, BodyAgentPayNoTx)} }
            \cup { [fn |-> "processPaymentAuthorization", arg |-> m, out |-> PendingCall] :
                     m \in AuthInputs \cup {ToolCall(id, "true", TxAbsent) : id \in {0, 2}} }
  /\ auth = IF call.fn = "processPaymentAuthorization" THEN AuthCall(call.arg)
            ELSE AuthIdle
  /\ CASE call.fn = "processPaymentRequired" ->
            /\ walletChain \in {0, BaseMainnet}
            /\ chainUsdc \in EnrichUsdcBalances
            /\ chainEth \in EnrichEthBalances
            /\ chainGas \in EnrichGasEstimates
       [] call.fn = "processPaymentAuthorization" ->
            /\ walletChain \in {0, BaseMainnet}
            /\ chainUsdc \in 0..2
            /\ chainEth \in EnrichEthBalances
            /\ chainGas \in EnrichGasEstimates
       [] OTHER -> ChainIdle

NextCalls ==
  \/ HasPaymentAuthorizationCall
  \/ ProcessPaymentRequiredCall
  \/ ProcessPaymentAuthorization
  \/ AuthResume
  \/ WalletConfigureForChain
  \/ WalletOperation
  \/ RegisterProtocolCall
  \/ GetProtocolPriorityCall
  \/ CallerChangesArray
  \/ DetectWithCall

NextDetect ==
  \/ DetectProtocolCall

NextRepair ==
  \/ FixTruncatedTransactionDataCall

NextWrap ==
  \/ setPaymentHeadersForNextRequest
  \/ WrapSend
  \/ TransportPost
  \/ TransportGet
  \/ FetchResolve

NextProcess ==
  \/ setPaymentHeadersForNextRequest
  \/ WrapSend
  \/ TransportPost
  \/ OtherPost
  \/ WrapClose
  \/ FetchResolve

NextAuth ==
  \/ ProcessPaymentAuthorization
  \/ AuthResume

NextClose ==
  \/ OnCloseLocal
  \/ OnCloseRemote
  \/ CloseSettles

NextConn ==
  \/ ConnectEnter
  \/ ConnectStartOk
  \/ ConnectStartFails
  \/ ConnectProbeOk
  \/ ConnectProbeFails

NextProxy ==
  \/ LocalReceive
  \/ LocalAuthStep
  \/ LocalAuthDone
  \/ RemoteReceive
  \/ RemoteEnrichStep
  \/ RemoteEnrichDone
  \/ TransportPost

SpecWrap  == InitWrap /\ [][NextWrap]_vars
SpecAuth  == InitAuth /\ [][NextAuth]_vars
SpecClose == InitClose /\ [][NextClose]_vars
SpecConn  == InitConn /\ [][NextConn]_vars
SpecProxy == InitProxy /\ [][NextProxy]_vars
SpecDetect == InitDetect /\ [][NextDetect]_vars
SpecRepair == InitRepair /\ [][NextRepair]_vars
SpecCalls == InitCalls /\ [][NextCalls]_vars
\* the wrapper in a process where other code calls fetch too, until closed
SpecProcess == InitWrap /\ [][NextProcess]_vars
\* every awaited promise of connectToRemoteServer settles
FairSpecConn == SpecConn /\ WF_vars(NextConn)
\* every awaited WalletService call settles and every handler that can
\* continue does
FairSpecProxy ==
  /\ SpecProxy
  /\ WF_vars(LocalAuthStep) /\ WF_vars(LocalAuthDone)
  /\ WF_vars(RemoteEnrichStep) /\ WF_vars(RemoteEnrichDone)


(***************************************************************************)
(* Properties                                                              *)
(***************************************************************************)

\* C1: on an auth-wrapped transport, the POST that follows a staging
\* carries the staged header set and the slot is already empty when the
\* request is handed to originalFetch; a POST that follows another POST
\* carries no payment headers; after the first POST that follows a staging
\* the slot is empty, however that request ends.
PaymentHeadersOnNextPostOnly ==
  /\ \A i \in 1..Len(wrapHist) :
       wrapHist[i].ev = "post" =>
         /\ wrapHist[i].h = (IF i > 1 /\ wrapHist[i - 1].ev = "stage"
                             THEN wrapHist[i - 1].h ELSE None)
         /\ wrapHist[i].slotAtDispatch = None
  /\ (Len(wrapHist) > 0 /\ wrapHist[Len(wrapHist)].ev = "post")
        => pendingPaymentHeaders = None

\* a staging followed by two POSTs, the first of which failed
StagedThenTwoPosts ==
  /\ Len(wrapHist) = 3 /\ Len(fetchLog) = 2
  /\ wrapHist[1].ev = "stage" /\ wrapHist[2].ev = "post" /\ wrapHist[3].ev = "post"
  /\ fetchLog[1].pay = wrapHist[1].h /\ fetchLog[1].outcome = "network-error"
  /\ fetchLog[2].pay = None

\* C2: signTransaction is invoked, and headers are produced, only for a
\* request whose aa_payment_approved is true or "true" and that carries a
\* transaction -- here for processPaymentAuthorization called directly.
SignOnlyWhenApproved ==
  /\ \A i \in 1..Len(signLog) :
       signLog[i].approved \in ApprovalTrue /\ signLog[i].tx.kind # "absent"
  /\ auth.result.kind = "headers" =>
       auth.msg.approved \in ApprovalTrue /\ auth.msg.tx.kind # "absent"

\* C3: in a call of processPaymentAuthorization signing is invoked at most
\* once, and only after validation of the repaired template succeeded, then
\* the asset balance was found to be at least the required amount, then the
\* gas balance was found strictly greater than the gas estimate; when one
\* of these checks fails the call returns an error, without signing and
\* without headers.
AuthLogIdx(ev) == {i \in 1..Len(auth.log) : auth.log[i] = ev}

SignOnlyAfterChecks ==
  /\ Cardinality(AuthLogIdx("sign")) <= 1
  /\ Len(signLog) = Cardinality(AuthLogIdx("sign"))
  /\ AuthLogIdx("sign") # {} =>
       /\ Len(auth.log) >= 4
       /\ auth.log[1] = "validate-ok" /\ auth.log[2] = "asset-ok"
       /\ auth.log[3] = "gas-ok" /\ auth.log[4] = "sign"
       /\ validateTransactionTemplate(auth.transaction) = <<>>
       /\ auth.transaction = fixTruncatedTransactionData(auth.msg.tx.tpl)
       /\ auth.availableUsdc >= auth.requiredAmount
       /\ auth.availableEth > auth.gasCost
  /\ (\E ev \in {"validate-fail", "asset-fail", "gas-fail"} : AuthLogIdx(ev) # {}) =>
       /\ auth.pc = "done"
       /\ auth.result.kind = "error" /\ auth.result.headers = None
       /\ AuthLogIdx("sign") = {} /\ signLog = <<>> /\ call = NoCall

\* a call that passed the three checks, signed and returned headers
AuthSignedAfterChecks ==
  /\ auth.pc = "done" /\ auth.result.kind = "headers"
  /\ auth.log = <<"validate-ok", "asset-ok", "gas-ok", "sign", "headers">>
  /\ Len(signLog) = 1

\* C4: after the first close event the proxy has called close() on the
\* opposite transport exactly once and never on the side that closed
\* first, whatever close events follow (repeated ones included).
CloseOppositeExactlyOnce ==
  Len(closeEvents) >= 1 =>
    /\ CloseCallsOn(Opposite(closeEvents[1])) = 1
    /\ CloseCallsOn(closeEvents[1]) = 0

\* C5: with sse-first or http-first and an empty ledger, when every start
\* fails with a fallback-eligible error, exactly two transports are
\* attempted, the primary kind first and the other kind second, and the
\* call rejects with the second attempt's error; no third attempt is made.
PrimaryKind(strategy) == IF strategy = "sse-first" THEN "sse" ELSE "http"
OtherKind(kind) == IF kind = "sse" THEN "http" ELSE "sse"

AllStartsFailEligible ==
  /\ conn.pc # "idle"
  /\ conn.initialStrategy \in FirstStrategies
  /\ conn.initialReasons = {}
  /\ \A i \in 1..Len(conn.outcomes) :
       conn.outcomes[i] \in {"HTTP 404", "Method Not Allowed", "protocol error"}

TwoAttemptsThenReject ==
  AllStartsFailEligible =>
    /\ Len(conn.starts) <= 2
    /\ Len(conn.starts) >= 1 => conn.starts[1] = PrimaryKind(conn.initialStrategy)
    /\ Len(conn.starts) = 2 => conn.starts[2] = OtherKind(conn.starts[1])
    /\ Len(conn.outcomes) = 2 =>
         /\ conn.pc = "done"
         /\ conn.result.kind = "error"
         /\ conn.result.error = [message |-> conn.outcomes[2], attempt |-> 2, probe |-> FALSE]
    /\ conn.pc = "done" => Len(conn.outcomes) = 2

\* both kinds were tried, both starts failed with eligible errors
TwoEligibleFailures ==
  /\ AllStartsFailEligible
  /\ conn.pc = "done" /\ conn.starts = <<"http", "sse">>
  /\ conn.outcomes = <<"HTTP 404", "Method Not Allowed">>
  /\ conn.result.error.message = "Method Not Allowed"

\* C6: in every execution of connectToRemoteServer the fallback reason is
\* recorded at most once, at most two transports are started, and the call
\* ends with a connected transport or with an error.
ConnBounded ==
  /\ conn.adds <= 1
  /\ Len(conn.starts) <= 2
  /\ conn.probes <= 1

ConnDone ==
  /\ conn.pc = "done"
  /\ conn.result.kind \in {"connected", "error"}

ConnectTerminatesBounded == []ConnBounded /\ <>ConnDone

\* the probe failed with an eligible error and the fallback connected
ProbeFallbackConnected ==
  /\ conn.pc = "done" /\ conn.result.kind = "connected"
  /\ conn.adds = 1 /\ conn.probes = 1 /\ conn.starts = <<"http", "sse">>

\* the sends the proxy made on behalf of one received message
LocalAnswers(i) ==
  {k \in 1..Len(toLocal) : toLocal[k].dir = "local" /\ toLocal[k].src = i}
LocalForwards(i) == {k \in 1..Len(toRemote) : toRemote[k].src = i}
RemoteDeliveries(j) ==
  {k \in 1..Len(toLocal) : toLocal[k].dir = "remote" /\ toLocal[k].src = j}

\* C7: for a local message with approval markers and a transaction, an
\* authorization error gives exactly one error response to the local side
\* (code -32001, the id of the request, the error text, instructions), no
\* send to the remote side and no staged headers; every such message ends
\* with exactly one of the two: error response to local, forward to remote.
AuthErrorAnsweredLocally ==
  /\ \A i \in 1..Len(localIn) :
       hasPaymentAuthorization(localIn[i]) =>
         /\ Cardinality(LocalAnswers(i)) + Cardinality(LocalForwards(i)) <= 1
         /\ localH[i].pc = "done" =>
              Cardinality(LocalAnswers(i)) + Cardinality(LocalForwards(i)) = 1
         /\ localH[i].a.result.kind = "error" =>
              /\ LocalForwards(i) = {}
              /\ localH[i].staged = None
              /\ localH[i].pc = "done" =>
                   /\ Cardinality(LocalAnswers(i)) = 1
                   /\ \A k \in LocalAnswers(i) :
                        /\ toLocal[k].out.kind = "error"
                        /\ toLocal[k].out.code = 0 - 32001
                        /\ toLocal[k].out.id = localIn[i].id
                        /\ toLocal[k].out.text = localH[i].a.result.text
                        /\ toLocal[k].out.text # None
                        /\ toLocal[k].out.instructions # None
  /\ StageCount = Cardinality({i \in 1..Len(localH) : localH[i].staged # None})
  /\ \A i \in 1..Len(localH) :
       localH[i].staged # None => localH[i].a.result.kind = "headers"

\* one approved request was refused with an error response and another was
\* authorized, staged and forwarded
OneRefusedOneForwarded ==
  /\ \E i \in 1..Len(localH) :
       /\ localH[i].pc = "done" /\ localH[i].a.result.kind = "error"
       /\ LocalAnswers(i) # {}
  /\ \E i \in 1..Len(localH) :
       /\ localH[i].pc = "done" /\ localH[i].a.result.kind = "headers"
       /\ localH[i].staged # None /\ LocalForwards(i) # {}

\* C8: for every remote message the proxy sends exactly one message to the
\* local side: the output of processPaymentRequired when a protocol is
\* detected and the call returns, the original message otherwise (nothing
\* detected, no wallet, or the call throws); nothing is sent before the
\* handler has finished.
RemoteDeliveredExactlyOnce ==
  \A j \in 1..Len(remoteIn) :
    /\ remoteH[j].pc # "done" => RemoteDeliveries(j) = {}
    /\ remoteH[j].pc = "done" =>
         /\ Cardinality(RemoteDeliveries(j)) = 1
         /\ \A k \in RemoteDeliveries(j) :
              toLocal[k].out =
                IF hasWallet /\ isPaymentRequired(remoteIn[j])
                   /\ remoteH[j].e.result.kind = "message"
                THEN remoteH[j].e.result.out
                ELSE ForwardOut(remoteIn[j])

\* one challenge whose enrichment threw was delivered as received and
\* another was delivered enriched
ThrownAndEnrichedDelivered ==
  /\ \E j \in 1..Len(remoteH) :
       /\ remoteH[j].pc = "done" /\ remoteH[j].e.result.kind = "throw"
       /\ \E k \in RemoteDeliveries(j) : toLocal[k].out = ForwardOut(remoteIn[j])
  /\ \E j \in 1..Len(remoteH) :
       /\ remoteH[j].pc = "done" /\ remoteH[j].e.result.kind = "message"
       /\ \E k \in RemoteDeliveries(j) : toLocal[k].out.kind = "enhanced"

\* C9: a message without payment indicators (local: no approval markers,
\* whatever its method; remote: no detector match) is delivered to the
\* other side with the content it was received with, with or without a
\* wallet, and the received message object is never changed.
PlainMessagesPassUnchanged ==
  /\ \A i \in 1..Len(localIn) :
       ~hasPaymentAuthorization(localIn[i]) =>
         /\ localH[i].msg = localIn[i]
         /\ Cardinality(LocalForwards(i)) = 1
         /\ \A k \in LocalForwards(i) : toRemote[k].msg = localIn[i]
  /\ \A j \in 1..Len(remoteIn) :
       ~isPaymentRequired(remoteIn[j]) =>
         /\ Cardinality(RemoteDeliveries(j)) = 1
         /\ \A k \in RemoteDeliveries(j) : toLocal[k].out = ForwardOut(remoteIn[j])

\* C10: what the proxy sends on behalf of an earlier message of one side
\* is sent before what it sends on behalf of a later message of that side,
\* also when the earlier handler awaits wallet calls and the later awaits
\* nothing.
PerDirectionOrderPreserved ==
  /\ \A k1, k2 \in 1..Len(toRemote) :
       k1 < k2 => toRemote[k1].src <= toRemote[k2].src
  /\ \A k1, k2 \in 1..Len(toLocal) :
       (k1 < k2 /\ toLocal[k1].dir = "remote" /\ toLocal[k2].dir = "remote")
         => toLocal[k1].src <= toLocal[k2].src

\* the events of a call in which a node request failed
NetworkFailures == {"balances-fail", "nonce-fail", "gasprice-fail", "sign-fail"}

\* every node request of the call was answered
AuthAnswered(a, gas) ==
  /\ \A k \in 1..Len(a.log) : a.log[k] \notin NetworkFailures
  /\ a.gasCost \in {0, gas}

\* the result of a call started on wallet chain w when every node request
\* is answered
RECURSIVE AuthOutcome(_, _, _, _, _)
AuthOutcome(a, w, usdc, eth, gas) ==
  IF a.pc = "done" THEN a.result
  ELSE LET r == CHOOSE r \in AuthNext(a, w, usdc, eth, gas) : AuthAnswered(r.a, gas)
       IN AuthOutcome(r.a, r.w, usdc, eth, gas)

\* C11: the result of processPaymentAuthorization for a request is the one
\* the same request gets on a wallet that served no earlier call, whatever
\* processPaymentRequired and processPaymentAuthorization calls came before.
AuthResultIndependentOfHistory ==
  \A i \in 1..Len(localH) :
    (localH[i].pc # "threw" /\ localH[i].a.pc = "done"
       /\ AuthAnswered(localH[i].a, chainGas))
      => localH[i].a.result =
           AuthOutcome(AuthCall(localH[i].msg), 0, chainUsdc, chainEth, chainGas)

\* C12: an approved request that replays the template of an x402 challenge
\* (x402Requirement, chain 8453 or 84532) passes validation on both chains,
\* is not signed as a transaction but as typed data, and yields the single
\* X-PAYMENT header; an AgentPay template yields x-agentpay-authorization
\* and x-agentpay-from.
X402TemplateUsesX402Descriptor ==
  /\ \A k \in 1..Len(signLog) : ~signLog[k].tx.tpl.x402Requirement
  /\ auth.msg.tx.tpl.x402Requirement => \A k \in 1..Len(auth.log) : auth.log[k] # "validate-fail"
  /\ auth.result.kind = "headers" =>
       auth.result.names = IF auth.msg.tx.tpl.x402Requirement
                           THEN {"X-PAYMENT"}
                           ELSE {"x-agentpay-authorization", "x-agentpay-from"}

\* a payload with the indicators of both protocols
DualIndicators(p) ==
  /\ p.x402Version # 0 /\ p.accepts # "none"
  /\ (p.error = "payment_required" \/ p.code = 402)

\* C13: for a payload with x402 indicators and AgentPay indicators, in
\* error.data, in error, in result or in the text of the MCP content
\* format, and for either key order, detectProtocol returns x402; it
\* returns agentpay-v002 in no position at all.
X402WinsOverAgentPay ==
  (call.fn = "detectProtocol" /\ call.out.done /\ call.arg.top = "object"
     /\ DualIndicators(call.arg.payload))
    => /\ call.out.name # "agentpay-v002"
       /\ call.arg.position \in PayloadPositions => call.out.name = "x402"

\* a version-2 payload with both indicator sets, AgentPay keys first, sent
\* as Python dict text, was detected as x402
DualPayloadDetectedAsX402 ==
  /\ call.fn = "detectProtocol" /\ call.out.done
  /\ DualIndicators(call.arg.payload)
  /\ call.arg.payload.x402Version = 2
  /\ call.arg.position = "content-python" /\ call.arg.keyOrder = "agentpay-first"
  /\ call.out.name = "x402"

\* the inputs that hold no payment payload
NoMatchInput(env) ==
  \/ env.top # "object"
  \/ env.position \in {"none", "empty", "content-unparsable", "content-nontext",
                       "content-empty"}
  \/ env.payload = NoBody

\* C14: detectProtocol and isPaymentRequired never throw; for null,
\* undefined, the empty object, a message with neither result nor error,
\* content text that cannot be parsed, non-text content and an empty
\* content list they return null and false.
DetectionNeverThrows ==
  (call.fn = "detectProtocol" /\ call.out.done)
    => /\ call.out.name # "throw"
       /\ NoMatchInput(call.arg) => (call.out.name = None /\ ~call.out.required)

\* a content list holding null, where the AgentPay predicate throws, gave
\* no match
ThrowingPredicateGaveNoMatch ==
  /\ call.fn = "detectProtocol" /\ call.out.done
  /\ call.arg.position = "result"
  /\ call.arg.payload.content = "null-item"
  /\ AgentPayIsPaymentRequired(call.arg.payload) = "throw"
  /\ call.out.name = None /\ ~call.out.required

\* C15: the required amount processPaymentAuthorization compares with the
\* USDC balance is the amount word of the repaired template of the request
\* itself, whatever amounts earlier payment challenges asked for and
\* whatever the approval marker and the form of the transaction argument
AssetChecked(a) ==
  \E k \in 1..Len(a.log) : a.log[k] \in {"asset-ok", "asset-fail"}

ChallengeAmounts ==
  { parseFloat(remoteH[j].e.details.amount) : j \in { k \in 1..Len(remoteH) :
                                           remoteH[k].e.details.kind = "details" } }

RequiredAmountFromTemplateOnly ==
  \A i \in 1..Len(localH) :
    AssetChecked(localH[i].a) =>
      localH[i].a.requiredAmount
        = fixTruncatedTransactionData(localH[i].msg.tx.tpl).amt

RequiredDiffersFromChallenge ==
  \E i \in 1..Len(localH) :
    /\ AssetChecked(localH[i].a)
    /\ localH[i].a.requiredAmount = 1
    /\ ChallengeAmounts = {2}

\* C16: when the USDC balance b is below the required amount r, the error
\* processPaymentAuthorization returns names the shortfall r - b, and
\* signTransaction is not invoked for the request
InsufficientFunds(a) ==
  /\ a.pc = "done"
  /\ \E k \in 1..Len(a.log) : a.log[k] = "asset-fail"

ShortfallNamedAndNothingSigned ==
  InsufficientFunds(auth) =>
    /\ auth.result.kind = "error"
    /\ \E q \in auth.result.quantities :
         q[1] = "Shortfall" /\ q[2] = auth.requiredAmount - auth.availableUsdc
    /\ signLog = <<>>

\* C17: for every template and for both descriptors, applying
\* fixTruncatedTransactionData to its own result gives that result again
RepairIdempotent ==
  call.fn = "fixTruncatedTransactionData" =>
    \A k \in 2..Len(call.out) : call.out[k] = call.out[1]

TruncatedRepairedTwice ==
  /\ call.fn = "fixTruncatedTransactionData"
  /\ call.arg.protocolName = "agentpay-v002"
  /\ call.arg.template.sel /\ call.arg.template.len = SelectorAndRecipientLen
  /\ Len(call.out) = 2
  /\ call.out[1] # call.arg.template
  /\ call.out[2].len = FullTransferLen

\* C18: the wrapper has one pending slot: when a header set is staged while
\* an earlier one has not been consumed, the next POST of the transport
\* carries the later set only, and no request carries the earlier set
\* unless that set was staged again in between
LaterStagingReplacesEarlier ==
  \A i \in 1..Len(wrapHist) :
    (/\ i < Len(wrapHist)
     /\ wrapHist[i].ev = "stage"
     /\ wrapHist[i + 1].ev = "stage") =>
       /\ (i + 2 <= Len(wrapHist) /\ wrapHist[i + 2].ev = "post")
            => wrapHist[i + 2].h = wrapHist[i + 1].h
       /\ \A k \in (i + 1)..Len(wrapHist) :
            (wrapHist[k].ev = "post" /\ wrapHist[k].h = wrapHist[i].h) =>
              \E j \in (i + 1)..(k - 1) :
                wrapHist[j].ev = "stage" /\ wrapHist[j].h = wrapHist[i].h

TwoStagedOnePosted ==
  /\ Len(wrapHist) = 3 /\ Len(fetchLog) = 1
  /\ wrapHist[1].ev = "stage" /\ wrapHist[1].h = "h1"
  /\ wrapHist[2].ev = "stage" /\ wrapHist[2].h = "h2"
  /\ wrapHist[3].ev = "post" /\ fetchLog[1].pay = "h2"
  /\ pendingPaymentHeaders = None

\* C19: once close() of the wrapper has been called the pending slot is
\* empty: the call clears a header set that was staged and not consumed
CloseClearsPendingHeaders ==
  [][globalFetch' # globalFetch => pendingPaymentHeaders' = None]_vars

\* C20: a POST issued by code other than the wrapped transport carries
\* neither the identity headers nor staged payment headers, and so does
\* not take the header set out of the slot
OtherRequestsUntouched ==
  \A i \in 1..Len(fetchLog) :
    fetchLog[i].by = "other" => ~fetchLog[i].identity /\ fetchLog[i].pay = None

\* C21: when connectToRemoteServer is called with sse-only or http-only,
\* or the first error of start or of the probe carries no fallback
\* signature, the call starts one transport, rejects with that error and
\* leaves recursionReasons as it was given
NoFallbackCase ==
  /\ Len(conn.failures) >= 1
  /\ \/ conn.initialStrategy \in {"sse-only", "http-only"}
     \/ conn.failures[1].message = "ECONNREFUSED"

SingleAttemptThenRethrow ==
  NoFallbackCase =>
    /\ conn.pc = "done"
    /\ conn.result.kind = "error"
    /\ conn.result.error = conn.failures[1]
    /\ Len(conn.failures) = 1
    /\ Len(conn.starts) = 1
    /\ conn.adds = 0
    /\ conn.recursionReasons = conn.initialReasons

\* http-only: the probe failed with a signature that http-first would fall
\* back on
OnlyStrategyProbeRejected ==
  /\ conn.initialStrategy = "http-only" /\ conn.initialReasons = {}
  /\ conn.pc = "done" /\ conn.result.kind = "error"
  /\ conn.result.error = [message |-> "HTTP 404", attempt |-> 1, probe |-> TRUE]
  /\ conn.starts = <<"http">>

\* C22: when every WalletService call settles and the handlers are
\* scheduled fairly, each message received from the local or the remote
\* side is eventually followed by a send the proxy makes for it (the
\* message forwarded, an enriched response, or an error response)
EveryMessageEventuallySent ==
  /\ \A i \in 1..MaxMsgs :
       (Len(localIn) >= i) ~> (LocalAnswers(i) \cup LocalForwards(i) # {})
  /\ \A j \in 1..MaxMsgs :
       (Len(remoteIn) >= j) ~> (RemoteDeliveries(j) # {})

\* C23: hasPaymentAuthorization(m) is true exactly when m has
\* params.arguments with aa_payment_approved true or "true" and an
\* aa_payment_transaction that is an object or text; for null, undefined,
\* {}, a message without params, without the flag or without the
\* transaction it returns false, and it never throws
ApprovalDetectedExactly ==
  (call.fn = "hasPaymentAuthorization" /\ call.out.done) =>
    /\ call.out.value \in {"true", "false"}
    /\ call.out.value = "true" <=>
         /\ call.arg.top = "object"
         /\ call.arg.msg.hasParams /\ call.arg.msg.hasArgs
         /\ call.arg.msg.approved \in {"true", "'true'"}
         /\ call.arg.msg.tx.kind \in {"object", "text", "badtext"}

\* the string "true" with a transaction given as text was detected, and
\* in another call null was not
TextApprovalDetected ==
  /\ call.fn = "hasPaymentAuthorization" /\ call.out.done
  /\ call.arg.msg.approved = "'true'" /\ call.arg.msg.tx.kind = "text"
  /\ call.out.value = "true"
\* C24: a challenge made from a valid x402 requirement of a atomic units
\* shows a / 10^6 (1000000 gives 1.0, 1000 gives 0.001), its template is a
\* full-length transfer encoding exactly a, and the amount authorization
\* recomputes from that template is the amount shown
X402Challenged ==
  /\ call.fn = "processPaymentRequired"
  /\ detectProtocol(call.arg) = "x402"
  /\ call.out.pc = "done"
  /\ call.out.result.kind = "message"
  /\ call.out.result.out.kind = "enhanced"

X402AmountsAgree ==
  X402Challenged =>
    LET a == extractMCPResponseData(call.arg).amount
        shown == call.out.result.out.extra.amount
        template == call.out.result.out.extra.transaction
    IN /\ shown.frac \in 0..999999
       /\ shown.whole * 1000000 + shown.frac = a
       /\ a = 1000000 => shown = [whole |-> 1, frac |-> 0]
       /\ a = 1000 => shown = [whole |-> 0, frac |-> 1000]
       /\ template.sel /\ template.len = FullTransferLen /\ template.hexOk
       /\ template.amt = a
       /\ extractAmountFromTransaction(fixTruncatedTransactionData(template))
            = parseFloat(shown)

ThousandthChallenged ==
  /\ X402Challenged
  /\ extractMCPResponseData(call.arg).amount = 1000
  /\ call.out.result.out.extra.transaction.amt = 1000
  /\ call.out.result.out.extra.amount = [whole |-> 0, frac |-> 1000]

\* C27: when the maxAmountRequired of the first accepts entry has a decimal
\* point, is not a string of digits, or is zero or negative, x402
\* extractPaymentDetails gives null, processPaymentRequired awaits nothing,
\* leaves the wallet alone and returns the message it was given, and the
\* proxy sends that message
X402BadAmount(response) ==
  /\ response.x402Version = 1
  /\ \/ response.accepts \in {"decimal", "non-integer", "base-lenient"}
     \/ response.accepts \in {"base", "base-sepolia"} /\ response.amount <= 0

X402BadAmountNotEnriched ==
  (call.fn = "processPaymentRequired" /\ X402BadAmount(extractMCPResponseData(call.arg))) =>
    /\ X402ExtractPaymentDetails(extractMCPResponseData(call.arg)) = NoDetails
    /\ call.out.pc \in {"start", "done"}
    /\ walletChain = 0
    /\ call.out.pc = "done" =>
         /\ call.out.result = [kind |-> "message", out |-> ForwardOut(call.arg)]
         /\ RemoteContinue(call.arg, call.out.result) = <<ForwardOut(call.arg)>>
\* C25: configureForChain(c) for c in {8453, 84532} returns, leaves the
\* wallet on chain c (untouched when it was there already) with the USDC
\* address of that chain's table entry; for any other c it throws an error
\* that lists the supported ids and leaves the chain as it was
WalletLog == IF call.fn = "WalletService" THEN call.out ELSE <<>>

\* the chain of the wallet after the i-th call
ChainAfter(i) == IF i = Len(WalletLog) THEN walletChain ELSE WalletLog[i + 1].before

ConfigureForChainContract ==
  \A i \in DOMAIN WalletLog :
    LET e == WalletLog[i] IN
    /\ (e.op = "configureForChain" /\ e.chainId \in {8453, 84532}) =>
         /\ e.result.kind = "return"
         /\ ChainAfter(i) = e.chainId
         /\ isConfigured(ChainAfter(i))
    /\ (e.op = "configureForChain" /\ e.chainId \notin {8453, 84532}) =>
         /\ e.result.kind = "throw"
         /\ e.result.supported = <<8453, 84532>>
         /\ ChainAfter(i) = e.before
    /\ (e.op = "getUsdcContractAddress" /\ e.before = 8453) =>
         e.result = WalletReturn("0x833589fCD6eDb6E08f4c7C32D4f71b54bdA02913")
    /\ (e.op = "getUsdcContractAddress" /\ e.before = 84532) =>
         e.result = WalletReturn("0x036CbD53842c5426634e7929541eC2318f3dCF7e")

UnsupportedRefusedOnSepolia ==
  /\ Len(WalletLog) = 3
  /\ WalletLog[1].op = "configureForChain" /\ WalletLog[1].chainId = 84532
  /\ WalletLog[2].op = "configureForChain" /\ WalletLog[2].chainId = 1
  /\ WalletLog[2].result.kind = "throw"
  /\ WalletLog[3].op = "getUsdcContractAddress"
  /\ WalletLog[3].result.value = "0x036CbD53842c5426634e7929541eC2318f3dCF7e"
  /\ walletChain = 84532

\* C26: a wallet made from a token alone is unconfigured until a
\* configureForChain call returns; every chain-dependent method called on
\* an unconfigured wallet throws 'Chain not configured' and leaves it
\* unconfigured; after a configureForChain call has returned the wallet is
\* configured at every later call and at the end
ConfigureReturned(i) ==
  WalletLog[i].op = "configureForChain" /\ WalletLog[i].result.kind = "return"

UnconfiguredUntilConfiguredForGood ==
  /\ (call.fn = "WalletService" /\ \A i \in DOMAIN WalletLog : ~ConfigureReturned(i)) =>
       ~isConfigured(walletChain)
  /\ \A i \in DOMAIN WalletLog :
       LET e == WalletLog[i] IN
       /\ (e.op \in ChainDependentOperations /\ ~isConfigured(e.before)) =>
            /\ e.result.kind = "throw"
            /\ e.result.message = "Chain not configured. Call configureForChain() first."
            /\ ~isConfigured(ChainAfter(i))
       /\ ConfigureReturned(i) =>
            \A j \in i..Len(WalletLog) : isConfigured(ChainAfter(j))

RefusedThenConfiguredThenSigned ==
  /\ Len(WalletLog) = 3
  /\ WalletLog[1].op = "signTransaction" /\ WalletLog[1].result.kind = "throw"
  /\ ConfigureReturned(2)
  /\ WalletLog[3].op = "signTransaction" /\ WalletLog[3].result.kind = "return"
  /\ isConfigured(walletChain)
\* C28: after construction and any registerProtocol calls the priority list
\* begins x402, agentpay-v002 and has no duplicates; a step only ever
\* appends one absent name to it (the names already there keep their
\* places), and only registerProtocol does: what the caller does to an
\* array got from getProtocolPriority leaves the list alone
PriorityList == IF call.fn = "ProtocolDetector" THEN call.out.protocolPriority
                ELSE <<"x402", "agentpay-v002">>

PriorityListWellFormed ==
  /\ Len(PriorityList) >= 2
  /\ PriorityList[1] = "x402"
  /\ PriorityList[2] = "agentpay-v002"
  /\ \A i, j \in DOMAIN PriorityList : PriorityList[i] = PriorityList[j] => i = j

PriorityListStep ==
  /\ Len(PriorityList') \in {Len(PriorityList), Len(PriorityList) + 1}
  /\ SubSeq(PriorityList', 1, Len(PriorityList)) = PriorityList
  /\ PriorityList' # PriorityList =>
       /\ call'.out.registrations = call.out.registrations + 1
       /\ ~Includes(PriorityList, PriorityList'[Len(PriorityList')])
  /\ (call.fn = "ProtocolDetector" /\ call'.out.returned # call.out.returned
       /\ call.out.returned.ref # "none"
       /\ call'.out.returned.items # PriorityList) =>
         PriorityList' = PriorityList

PriorityListAppendOnly ==
  []PriorityListWellFormed /\ [][PriorityListStep]_vars

CustomAppendedCopyChanged ==
  /\ call.fn = "ProtocolDetector"
  /\ call.out.protocolPriority = <<"x402", "agentpay-v002", "custom-b", "custom-a">>
  /\ call.out.registrations = 3
  /\ call.out.returned.ref # "none"
  /\ call.out.returned.items = <<"x402">>
\* C29: the AgentPay repair returns something other than its argument only
\* for data that starts with the transfer selector and has 74 to 137
\* characters; what it then returns has data of exactly 138 characters and
\* differs from the argument in nothing else (selector, recipient, the
\* number the amount digits encode, every other field); in every other
\* case it returns its argument
InRepairWindow(template) ==
  /\ template.sel
  /\ template.len >= SelectorAndRecipientLen
  /\ template.len < FullTransferLen

RepairOnlyPadsTruncatedTransfer ==
  (/\ call.fn = "fixTruncatedTransactionData"
   /\ call.arg.protocolName = "agentpay-v002"
   /\ Len(call.out) >= 1) =>
    LET template == call.arg.template
        fixed == call.out[1]
    IN /\ fixed # template => InRepairWindow(template)
       /\ InRepairWindow(template) =>
            /\ fixed.len = FullTransferLen
            /\ fixed = [template EXCEPT !.len = FullTransferLen]
       /\ ~InRepairWindow(template) => fixed = template

HundredCharactersPadded ==
  /\ call.fn = "fixTruncatedTransactionData"
  /\ call.arg.protocolName = "agentpay-v002"
  /\ call.arg.template.sel /\ call.arg.template.len = 100 /\ call.arg.template.amt = 1
  /\ Len(call.out) >= 1
  /\ call.out[1].len = FullTransferLen
  /\ call.out[1].amt = 1
\* C30: a call of processPaymentAuthorization whose request lacks the
\* approval flag or the transaction, or carries transaction text that does
\* not parse, or a template whose repaired form fails validation, returns
\* an error before any wallet call (it never waits for balances, an
\* estimate or a signature); in the validation case the error is made of
\* the validator's errors, all of them, in their order
RefusedBeforeWallet(message) ==
  /\ message.hasParams
  /\ \/ AuthArgsMissing(message)
     \/ message.tx.kind = "badtext"
     \/ /\ ~message.tx.tpl.isNull
        /\ validateTransactionTemplate(fixTruncatedTransactionData(message.tx.tpl)) # <<>>

NoWalletCallOnRefusal ==
  (auth.pc # "idle" /\ RefusedBeforeWallet(auth.msg)) =>
    /\ auth.pc \in {"start", "done"}
    /\ signLog = <<>>
    /\ auth.pc = "done" =>
         /\ auth.result.kind = "error"
         /\ auth.result.headers = None
         /\ Len(auth.log) = 1
         /\ auth.log[1] \in {"args-missing", "parse-fail", "validate-fail"}
         /\ auth.log[1] = "validate-fail" =>
              auth.result.joined =
                validateTransactionTemplate(fixTruncatedTransactionData(auth.msg.tx.tpl))

TwoValidationErrorsReturned ==
  /\ auth.pc = "done"
  /\ auth.log = <<"validate-fail">>
  /\ Len(auth.result.joined) >= 2
  /\ signLog = <<>>

EnrichFailures == {"configureForChain threw", "getWalletBalances threw"}

\* C31: when configureForChain fails for the chain of the challenge, or the
\* balance query fails, processPaymentRequired returns (it does not throw) an
\* error response with the id of the response it was given and remediation
\* text, and makes no further wallet call; after a configuration failure it
\* has made no balance query and no gas estimation
EnrichFailureReturnsErrorResponse ==
  call.fn = "processPaymentRequired" =>
    LET e == call.out IN
    \A i \in DOMAIN e.log :
      e.log[i] \in EnrichFailures =>
        /\ i = Len(e.log)
        /\ e.log[i] = "configureForChain threw" => i = 1
        /\ e.pc = "done"
        /\ e.result.kind = "message"
        /\ e.result.out.kind = "error"
        /\ e.result.out.id = e.msg.id
        /\ e.result.out.code = PaymentErrorCode
        /\ e.result.out.text # None
        /\ e.result.out.instructions # None

UnsupportedChainChallengeAnswered ==
  /\ call.fn = "processPaymentRequired"
  /\ call.arg = Resp(2, BodyAgentPayChain)
  /\ call.out.log = <<"configureForChain threw">>
  /\ call.out.result.out.kind = "error"
  /\ call.out.result.out.id = 2

BalanceFailureAnswered ==
  /\ call.fn = "processPaymentRequired"
  /\ call.out.log = <<"configureForChain", "getWalletBalances threw">>
  /\ call.out.result.out.kind = "error"

\* what processPaymentRequired finds in the message before its first wallet
\* call: "none" (no protocol detected), "null" or "throw" (of
\* extractPaymentDetails), or "details"
EnrichFinding(message) ==
  IF detectProtocol(message) = None THEN "none"
  ELSE extractPaymentDetails(detectProtocol(message), extractMCPResponseData(message)).kind

EnrichReturnedItsArgument ==
  /\ call.out.result.kind = "message"
  /\ call.out.result.out = ForwardOut(call.arg)
  /\ call.out.log = <<>>
  /\ signLog = <<>>

\* C32: processPaymentRequired returns the very response message it was
\* given, and calls no wallet or signer method, when detection finds no
\* protocol, when extractPaymentDetails returns null and when it throws
UnrecognisedReturnedUnchanged ==
  (/\ call.fn = "processPaymentRequired"
   /\ call.out.pc = "done"
   /\ EnrichFinding(call.arg) \in {"none", "null", "throw"})
    => EnrichReturnedItsArgument

\* the two cases of C32 without the throwing extraction
UndetectedOrNullReturnedUnchanged ==
  (/\ call.fn = "processPaymentRequired"
   /\ call.out.pc = "done"
   /\ EnrichFinding(call.arg) \in {"none", "null"})
    => EnrichReturnedItsArgument

EstimationFailedNote == "Gas estimation failed: "

\* C33: when the cost estimation fails, enrichment and authorization go on
\* with 0.00005 ETH as the estimate and a note that the estimation failed;
\* the failed estimation alone gives no error result (enrichment still
\* returns the enriched response, authorization fails only on a further
\* cause), and authorization goes on towards signing when the gas balance
\* exceeds 0.00005
EstimationFailureFallsBack ==
  /\ call.fn = "processPaymentRequired" =>
       LET e == call.out IN
       (\E i \in DOMAIN e.log : e.log[i] = "estimateTxCost threw") =>
         /\ e.cost = fallbackGasCost
         /\ e.note = EstimationFailedNote
         /\ e.pc = "done" =>
              /\ e.result.kind = "message"
              /\ e.result.out.kind = "enhanced"
              /\ e.result.out.extra.gas = fallbackGasCost
              /\ e.result.out.extra.note = EstimationFailedNote
  /\ call.fn = "processPaymentAuthorization" =>
       (auth.note = EstimationFailedNote =>
         /\ auth.gasCost = fallbackGasCost
         /\ auth.availableEth > fallbackGasCost =>
              \E i \in DOMAIN auth.log : auth.log[i] = "gas-ok"
         /\ (auth.pc = "done" /\ auth.result.kind = "error") =>
              \/ auth.availableEth <= fallbackGasCost
              \/ auth.log[Len(auth.log)] \in {"nonce-fail", "gasprice-fail", "sign-fail"})

SignedOnFallbackEstimate ==
  /\ call.fn = "processPaymentAuthorization"
  /\ auth.note = EstimationFailedNote
  /\ auth.pc = "done"
  /\ auth.result.kind = "headers"
  /\ signLog # <<>>

EnrichedOnFallbackEstimate ==
  /\ call.fn = "processPaymentRequired"
  /\ call.out.pc = "done"
  /\ call.out.log = <<"configureForChain", "getWalletBalances", "estimateTxCost threw">>
  /\ call.out.result.out.kind = "enhanced"

\* C34: sufficient_funds of the enriched response is true exactly when the
\* asset balance is at least the challenged amount and the gas balance is
\* strictly greater than the gas estimate in use (the fallback when the
\* estimation failed): an equal gas balance is not enough, an equal asset
\* balance is
SufficientFundsExactly ==
  (/\ call.fn = "processPaymentRequired"
   /\ call.out.pc = "done"
   /\ call.out.result.out.kind = "enhanced") =>
    LET e == call.out
        x == e.result.out.extra
        estimate == IF e.note = "Real-time gas estimate" THEN chainGas
                    ELSE fallbackGasCost IN
    /\ x.usdc = chainUsdc /\ x.eth = chainEth /\ x.gas = estimate
    /\ x.sufficient <=> (/\ chainUsdc >= parseFloat(x.amount)
                         /\ chainEth > estimate)

EqualGasInsufficientEqualAssetFine ==
  /\ call.fn = "processPaymentRequired"
  /\ call.out.pc = "done"
  /\ call.out.result.out.kind = "enhanced"
  /\ chainUsdc = parseFloat(call.out.result.out.extra.amount)
  /\ chainEth = call.out.result.out.extra.gas
  /\ ~call.out.result.out.extra.sufficient

EqualAssetSufficient ==
  /\ call.fn = "processPaymentRequired"
  /\ call.out.pc = "done"
  /\ call.out.result.out.kind = "enhanced"
  /\ chainUsdc = parseFloat(call.out.result.out.extra.amount)
  /\ call.out.result.out.extra.sufficient

AuthorizationRefusalAnswered ==
  /\ call.fn = "processPaymentAuthorization"
  /\ call.arg.id = 2
  /\ auth.pc = "done"
  /\ auth.result.kind = "error"

\* the names of protocolPriority that have a protocol in the map, in order
RECURSIVE Consultable(_, _)
Consultable(detector, i) ==
  IF i > Len(detector.protocolPriority) THEN <<>>
  ELSE (IF detector.protocolPriority[i] \in detector.protocols
        THEN <<detector.protocolPriority[i]>> ELSE <<>>)
       \o Consultable(detector, i + 1)

\* C36: a detection predicate that throws counts as a non-match and every
\* later descriptor is still evaluated in priority order: detectProtocol
\* consults the registered names of the priority list in order up to the
\* first whose predicate returns true, whatever the earlier ones did, gives
\* each the payload normalized once at the start, and returns that name with
\* that payload (nothing when none returns true)
ThrowingPredicateIsNonMatch ==
  (call.fn = "detectProtocol" /\ call.out.done) =>
    LET names == Consultable(call.arg.detector, 1)
        data == extractMCPResponseData(call.arg.message)
        r == call.out.value
        hits == {i \in DOMAIN names : call.arg.outcome[names[i]] = "yes"}
        n == IF hits = {} THEN Len(names)
             ELSE CHOOSE i \in hits : \A k \in hits : i <= k IN
    /\ r.consulted = [i \in 1..n |-> [name |-> names[i], data |-> data]]
    /\ hits # {} => r.name = names[n] /\ r.extractedData = data
    /\ hits = {} => r.name = None

LaterMatchAfterThrow ==
  /\ call.fn = "detectProtocol"
  /\ call.out.done
  /\ Len(call.out.value.consulted) = 3
  /\ call.arg.outcome[call.out.value.consulted[1].name] = "throw"
  /\ call.arg.outcome[call.out.value.consulted[2].name] = "throw"
  /\ call.out.value.name = "custom-b"
  /\ call.out.value.extractedData = extractMCPResponseData(call.arg.message)

\* C40: in every detector state reachable through the constructor and
\* registerProtocol, every name getRegisteredProtocols lists is also in the
\* priority list, so that every registered protocol is consulted by
\* detection; this includes the protocols of the map given to the constructor
RegisteredNamesInPriorityList ==
  call.fn = "ProtocolDetector" =>
    \A name \in getRegisteredProtocols(call.out) :
      Includes(call.out.protocolPriority, name)

\* the same for detectors constructed with no map entry outside the two
\* default names
RegisteredNamesInPriorityListFromDefaults ==
  (call.fn = "ProtocolDetector" /\ call.arg \subseteq {"x402", "agentpay-v002"}) =>
    \A name \in getRegisteredProtocols(call.out) :
      Includes(call.out.protocolPriority, name)

\* a registered protocol whose predicate would return true is consulted
RegisteredMatchIsConsulted ==
  (call.fn = "detectProtocol" /\ call.out.done) =>
    \A name \in getRegisteredProtocols(call.arg.detector) :
      (\A other \in ProtocolNames :
         call.arg.outcome[other] = (IF other = name THEN "yes" ELSE "no"))
        => call.out.value.name = name

AuthLogged(ev) == \E i \in DOMAIN auth.log : auth.log[i] = ev

\* C38: for a validated template whose data does not start with the transfer
\* selector 0xa9059cbb, authorization takes 0 as the required amount, so the
\* asset-balance check passes whatever the balance and the flow goes on to
\* the gas check and to signing; it ends in an error only for a failed wallet
\* query, insufficient gas or a failed signing
NoSelectorRequiresNothing ==
  (AuthLogged("validate-ok") /\ ~auth.transaction.sel) =>
    /\ auth.requiredAmount = 0
    /\ ~AuthLogged("asset-fail")
    /\ auth.pc \notin {"start", "await-balances", "done"} => AuthLogged("asset-ok")
    /\ (auth.pc = "done" /\ auth.result.kind = "error") =>
         auth.log[Len(auth.log)] \in {"not-configured", "gas-fail"} \cup NetworkFailures
    /\ (auth.pc = "done" /\ auth.result.kind = "headers") =>
         AuthLogged("asset-ok") /\ AuthLogged("gas-ok") /\ signLog # <<>>

OtherCallSignedWithoutAsset ==
  /\ auth.msg.tx.tpl = TplOther(2)
  /\ chainUsdc = 0
  /\ auth.pc = "done"
  /\ auth.result.kind = "headers"
  /\ AuthLogged("asset-ok")
  /\ signLog # <<>>

\* the position of the most recent message from the local side that has a
\* method, 0 when there is none
LastWithMethod ==
  LET S == {i \in DOMAIN localIn : localIn[i].method # None} IN
  IF S = {} THEN 0 ELSE CHOOSE i \in S : \A k \in S : k <= i

LastRequestIsLastWithMethod ==
  /\ lastRequest = LastWithMethod
  /\ \A k \in DOMAIN toLocal :
       (toLocal[k].dir = "remote" /\ toLocal[k].out.kind = "enhanced") =>
         toLocal[k].out.extra.request = remoteH[toLocal[k].src].e.originalRequest

\* a handler of the remote side that starts enrichment is given the record
\* as it is then; the record changes only when a message with a method
\* arrives from the local side
LastRequestStep ==
  /\ (Len(remoteH') = Len(remoteH) + 1 /\ remoteH'[Len(remoteH')].pc = "enrich") =>
       remoteH'[Len(remoteH')].e.originalRequest = lastRequest
  /\ \A j \in DOMAIN remoteH :
       remoteH'[j].e.originalRequest = remoteH[j].e.originalRequest
  /\ lastRequest' # lastRequest =>
       /\ Len(localIn') = Len(localIn) + 1
       /\ localIn'[Len(localIn')].method # None
       /\ lastRequest' = Len(localIn')

\* C39: lastRequest always is the most recent message from the local side
\* that has a method (request or notification, forwarded or rejected) and no
\* response changes it; the request context given to the enrichment of a
\* challenge is that record as it is when the challenge is handled, whether
\* or not its id is the id of the challenge
LastRequestIsContext ==
  /\ []LastRequestIsLastWithMethod
  /\ [][LastRequestStep]_vars

ChallengeEnrichedWithOtherRequest ==
  \E k \in DOMAIN toLocal :
    /\ toLocal[k].dir = "remote"
    /\ toLocal[k].out.kind = "enhanced"
    /\ toLocal[k].out.extra.request # 0
    /\ localIn[toLocal[k].out.extra.request].id # toLocal[k].out.id

\* the handler of the local side stages and sends in one step: with the
\* staging, the authorized message is the last that send was called with
StagedWithItsSend ==
  [][pendingPaymentHeaders' # pendingPaymentHeaders /\ pendingPaymentHeaders' # None =>
       /\ Len(toRemote') = Len(toRemote) + 1
       /\ localH'[toRemote'[Len(toRemote')].src].staged = pendingPaymentHeaders'
       /\ sendQueue' = Append(sendQueue, toRemote'[Len(toRemote')].src)]_vars

\* C37: the local handler stages the authorization headers and calls send
\* for the authorized request in one step, so, the transport issuing its
\* requests in the order of the send calls, every request of the transport
\* carries the headers staged for the message it carries, and none when
\* none were staged for it
HeadersOnAuthorizedRequestOnly ==
  \A k \in DOMAIN fetchLog :
    fetchLog[k].by = "transport" =>
      fetchLog[k].pay = localH[fetchLog[k].msg].staged

====
